---- MODULE Spec2Model ----
(***************************************************************************)
(* Weather-application backend: the weather service (city find-or-create,  *)
(* search-history upsert, favorites, recent searches) and the controllers  *)
(* in front of it, over the four Prisma tables User, City, FavoriteCity    *)
(* and WeatherSearch.  One action per request handler; a handler runs to   *)
(* completion (single sequential caller).  Where requests overlap, a       *)
(* handler is followed from one await to the next (see proc below).        *)
(***************************************************************************)
EXTENDS Integers, Sequences, FiniteSets, TLC

VARIABLES user, userAutoIncrement, city, favoriteCity, weatherSearch, now,
          last, response, proc, session

vars == <<user, userAutoIncrement, city, favoriteCity, weatherSearch, now,
          last, response, proc, session>>

tables == <<user, city, favoriteCity, weatherSearch>>

(***************************************************************************)
(* Bounds of the exploration.                                              *)
(***************************************************************************)
MaxCities == 2
MaxFavorites == 2
MaxSearches == 2
MaxTime == 1
MaxRecentCities == 7
MaxRecentTime == 6
MaxWeatherCities == 1
MaxWeatherSearches == 1
MaxFanOutCities == 2
MaxFanOutFavorites == 2
MaxFanOutTime == 1
MaxRaceCities == 2
MaxRaceSearches == 2
MaxRaceFavorites == 2
MaxUserId == 2
MaxDeleteCities == 1
MaxDeleteFavorites == 1
MaxDeleteSearches == 1
MaxProfileUserId == 2
MaxSessionUserId == 2
MaxLoginUserId == 2
MaxOpsCities == 1
MaxOpsFavorites == 2
MaxOpsSearches == 2
MaxOpsTime == 1
MaxSessionCities == 1
MaxSessionFavorites == 1
MaxSessionSearches == 1

(***************************************************************************)
(* JavaScript values.  A request field is a string or absent (undefined);  *)
(* a number is an integer, NaN, or absent.                                 *)
(***************************************************************************)
Undefined == "undefined"
UndefinedNum == 0 - 1
NaN == 0 - 2

\* a test for absence only (x === undefined), which lets "" through
AbsentStr(s) == s = Undefined

\* !x for a string-or-undefined value
FalsyStr(s) == s = Undefined \/ s = ""

\* !x for a number
FalsyNum(n) == n = 0 \/ n = NaN \/ n = UndefinedNum

\* Number(x) and unary plus on a request field
ToNumber(s) ==
    CASE s = Undefined -> NaN
      [] s = "" -> 0
      [] s = "0" -> 0
      [] s = "7" -> 7
      [] OTHER -> NaN

(***************************************************************************)
(* Input domains.                                                          *)
(***************************************************************************)
Names == {"Pokhara", "Paris"}
NameInputs == Names \cup {Undefined, ""}
CoordInputs == {Undefined, "7"}
Emails == <<"a@x.io", "b@x.io">>
HomeCities == {"Pokhara"}

\* a password is what bcrypt reads of it, its first 72 bytes, and what
\* follows them; bcrypt.hash and bcrypt.compare read the first 72 bytes only
Secret == [head |-> "s3cretpw", tail |-> ""]
Passwords ==
    {Secret, [head |-> "s3cretpw", tail |-> "x"],
     [head |-> "0therpwd", tail |-> ""]}
RegisterPasswords == {Secret}

\* Joi.string().min(8) of registrationSchema and updatePasswordSchema
MinPasswordLength == 8
TooShort == [head |-> "short", tail |-> ""]

\* bcrypt.hash(password, 10)
BcryptHash(password) == [bcrypt |-> password.head]

\* bcrypt.compare(password, hash)
BcryptCompare(password, hash) == hash = [bcrypt |-> password.head]

\* the browser sessions (connect.sid cookies); a session that was never
\* logged in, or was destroyed, has no userId
Sessions == {1, 2}
NoSession == [userId |-> UndefinedNum]
\* a session carries the id of a user, of a user not registered (yet), or none (0)
UserIds == {0, 1}

\* what the weather provider answers: a failure, or a record whose
\* location block is one of these
Pokhara == [name |-> "Pokhara", lat |-> 7, lon |-> 7]
Paris == [name |-> "Paris", lat |-> 0, lon |-> 7]
Locations == {Pokhara, Paris}
ProviderFailure == [name |-> "", lat |-> NaN, lon |-> NaN]
ProviderResponses == Locations \cup {ProviderFailure}

(***************************************************************************)
(* Storage.  Every table is the sequence of its rows in insertion order.   *)
(* No City, FavoriteCity or WeatherSearch row is ever deleted, so the      *)
(* autoincrement id of such a row is its position; User rows can be        *)
(* deleted, and userAutoIncrement is the last id the User table gave out.  *)
(***************************************************************************)
Null == [id |-> 0]

Rows(table) == {table[i] : i \in 1 .. Len(table)}

\* a lookup whose result is never tested
UserAssumed(userId) == TRUE

\* prisma.user.findUnique({where: {id: userId}}) followed by if (!user)
UserExists(userId) == \E u \in Rows(user) : u.id = userId

\* prisma.city.findFirst({where: {name}}): an undefined value is no filter;
\* without orderBy the row returned among several matches is the store's choice
FindFirstCityByName(cities, name) ==
    LET matches == {c \in Rows(cities) : name = Undefined \/ c.name = name}
    IN  IF matches = {} THEN {Null} ELSE matches

\* prisma.city.findFirst({where: {latitude, longitude}})
FindFirstCityByCoordinates(cities, latitude, longitude) ==
    LET matches == {c \in Rows(cities) :
                       /\ (latitude = UndefinedNum \/ c.latitude = latitude)
                       /\ (longitude = UndefinedNum \/ c.longitude = longitude)}
    IN  IF matches = {} THEN {Null} ELSE matches

\* a findFirst whose where clause names the city only
FindFirstByCity(table, userId, cityId) ==
    LET matches == {r \in Rows(table) :
                       cityId = UndefinedNum \/ r.cityId = cityId}
    IN  IF matches = {} THEN {Null} ELSE matches

\* prisma.<table>.findFirst({where: {userId, cityId}}) on FavoriteCity or
\* WeatherSearch
FindFirstByUserAndCity(table, userId, cityId) ==
    LET matches == {r \in Rows(table) :
                       /\ r.userId = userId
                       /\ (cityId = UndefinedNum \/ r.cityId = cityId)}
    IN  IF matches = {} THEN {Null} ELSE matches

\* an insert under a unique index on the name, which a second row of the
\* same name does not pass
CreateCityUniqueName(cities, name, latitude, longitude) ==
    IF \E c \in Rows(cities) : c.name = name THEN cities
    ELSE Append(cities, [id |-> Len(cities) + 1, name |-> name,
                         latitude |-> latitude, longitude |-> longitude])

\* prisma.city.create({data: {name, latitude, longitude}})
CreateCity(cities, name, latitude, longitude) ==
    Append(cities, [id |-> Len(cities) + 1, name |-> name,
                    latitude |-> latitude, longitude |-> longitude])

\* timestamp DATETIME(3) NOT NULL DEFAULT CURRENT_TIMESTAMP(3)
CreateWeatherSearch(searches, userId, cityId, time) ==
    Append(searches, [id |-> Len(searches) + 1, timestamp |-> time,
                      userId |-> userId, cityId |-> cityId])

\* an update that writes no new timestamp
UpdateWeatherSearchStale(searches, id, time) == searches

\* prisma.weatherSearch.update({where: {id}, data: {timestamp: new Date()}})
UpdateWeatherSearch(searches, id, time) ==
    [searches EXCEPT ![id].timestamp = time]

\* a create that first removes the favorites other users hold on the city
CreateFavoriteCityExclusive(favorites, userId, cityId) ==
    Append(SelectSeq(favorites, LAMBDA f : f.cityId # cityId),
           [id |-> Len(favorites) + 1, userId |-> userId, cityId |-> cityId])

CreateFavoriteCity(favorites, userId, cityId) ==
    Append(favorites, [id |-> Len(favorites) + 1,
                       userId |-> userId, cityId |-> cityId])

(***************************************************************************)
(* What a service call leaves behind: the tables, the error it threw (""   *)
(* for success), the city it resolved, and the provider queries it issued. *)
(***************************************************************************)
Outcome(cities, favorites, searches, error, cityId, calls) ==
    [city |-> cities, favoriteCity |-> favorites, weatherSearch |-> searches,
     error |-> error, cityId |-> cityId, calls |-> calls]

Failed(error, calls) ==
    Outcome(city, favoriteCity, weatherSearch, error, 0, calls)

\* prisma.user.findUnique({where: {id: userId}}): the row, or null
FindUniqueUser(users, userId) ==
    LET matches == {u \in Rows(users) : u.id = userId}
    IN  IF matches = {} THEN Null ELSE CHOOSE u \in matches : TRUE

(***************************************************************************)
(* WeatherService.getWeather(userId) against the provider answer resp: the *)
(* error thrown ("" for none), the provider queries issued and the record  *)
(* returned (as a list of one, empty when the call threw).                 *)
(***************************************************************************)
\* a lookup that asks for a fixed city, whatever the user's row says
GetWeatherOfPokhara(userId, resp) ==
    IF FindUniqueUser(user, userId) = Null
    THEN [error |-> "UserNotFound", calls |-> <<>>, result |-> <<>>]
    ELSE IF resp = ProviderFailure
    THEN [error |-> "ProviderError", calls |-> <<"Pokhara">>, result |-> <<>>]
    ELSE [error |-> "", calls |-> <<"Pokhara">>, result |-> <<resp>>]

GetWeather(userId, resp) ==
    LET userRow == FindUniqueUser(user, userId)
    IN  IF userRow = Null
        THEN [error |-> "UserNotFound", calls |-> <<>>, result |-> <<>>]
        ELSE LET userCity == userRow.city
             IN  IF resp = ProviderFailure
                 THEN [error |-> "ProviderError", calls |-> <<userCity>>,
                       result |-> <<>>]
                 ELSE [error |-> "", calls |-> <<userCity>>,
                       result |-> <<resp>>]

(***************************************************************************)
(* WeatherService.searchWeather(query, userId, addToRecentSearch) against  *)
(* the provider answer resp: the set of outcomes the call can have (the    *)
(* choice is the store's, in findFirst).                                   *)
(***************************************************************************)
\* the find-or-create of the City row and the upsert of the WeatherSearch row
RecordSearch(query, userId, resp, calls, time) ==
    LET byName == ~FalsyStr(query.q)
        \* if (query.lat && query.lon) { query.lat = +query.lat; ... }
        converted == ~FalsyStr(query.lat) /\ ~FalsyStr(query.lon)
        found == IF byName
                 THEN FindFirstCityByName(city, query.q)
                 ELSE FindFirstCityByCoordinates(city, ToNumber(query.lat),
                                                 ToNumber(query.lon))
        Upsert(c) ==
            LET cities == IF c = Null
                          THEN CreateCity(city, resp.name, resp.lat, resp.lon)
                          ELSE city
                cityId == IF c = Null THEN Len(city) + 1 ELSE c.id
                existing == FindFirstByUserAndCity(weatherSearch, userId, cityId)
                Write(existingSearchRecord) ==
                    IF existingSearchRecord # Null
                    THEN Outcome(cities, favoriteCity,
                                 UpdateWeatherSearch(weatherSearch,
                                                     existingSearchRecord.id, time),
                                 "", cityId, calls)
                    ELSE IF ~UserExists(userId)
                    \* WeatherSearch_userId_fkey rejects the insert
                    THEN Outcome(cities, favoriteCity, weatherSearch,
                                 "StorageError", cityId, calls)
                    ELSE Outcome(cities, favoriteCity,
                                 CreateWeatherSearch(weatherSearch, userId,
                                                     cityId, time),
                                 "", cityId, calls)
            IN  {Write(e) : e \in existing}
    IN  IF ~byName /\ ~converted
        \* latitude/longitude reach the Float filter as strings
        THEN {Failed("StorageError", calls)}
        ELSE UNION {Upsert(c) : c \in found}

\* a search that asks the provider a second time when the first call failed
SearchWeatherRetry(query, userId, addToRecentSearch, resp, time) ==
    IF FalsyStr(query.q) /\ (query.lat = Undefined \/ query.lon = Undefined)
    THEN {Failed("InvalidInput", <<>>)}
    ELSE LET queryParameters ==
                 IF ~FalsyStr(query.q) THEN query.q
                 ELSE query.lat \o "," \o query.lon
         IN  IF resp = ProviderFailure
             THEN {Failed("ProviderError", <<queryParameters, queryParameters>>),
                   Failed("", <<queryParameters, queryParameters>>)}
             ELSE IF addToRecentSearch
             THEN RecordSearch(query, userId, resp, <<queryParameters>>, time)
             ELSE {Failed("", <<queryParameters>>)}

SearchWeather(query, userId, addToRecentSearch, resp, time) ==
    IF FalsyStr(query.q) /\ (query.lat = Undefined \/ query.lon = Undefined)
    THEN {Failed("InvalidInput", <<>>)}
    ELSE LET queryParameters ==
                 IF ~FalsyStr(query.q) THEN query.q
                 ELSE query.lat \o "," \o query.lon
             calls == <<queryParameters>>
         IN  IF resp = ProviderFailure
             THEN {Failed("ProviderError", calls)}
             ELSE IF addToRecentSearch
             THEN RecordSearch(query, userId, resp, calls, time)
             ELSE {Failed("", calls)}

(***************************************************************************)
(* WeatherService.addToFavorites(city, userId): the set of outcomes.       *)
(***************************************************************************)
AddToFavorites(cityArg, userId) ==
    IF ~UserExists(userId)
    THEN {Failed("UserNotFound", <<>>)}
    ELSE LET Check(existingCity) ==
                 \* cityId: existingCity?.id
                 LET cityId == IF existingCity = Null THEN UndefinedNum
                               ELSE existingCity.id
                     Add(existingFavorite) ==
                         IF existingFavorite # Null
                         THEN Outcome(city, favoriteCity, weatherSearch,
                                      "AlreadyFavorited", existingCity.id, <<>>)
                         ELSE IF existingCity = Null
                         THEN Failed("CityNotFound", <<>>)
                         ELSE Outcome(city,
                                      CreateFavoriteCity(favoriteCity, userId,
                                                         existingCity.id),
                                      weatherSearch, "", existingCity.id, <<>>)
                 IN  {Add(f) : f \in FindFirstByUserAndCity(favoriteCity,
                                                            userId, cityId)}
         IN  UNION {Check(c) : c \in FindFirstCityByName(city, cityArg.name)}

(***************************************************************************)
(* WeatherService.getRecentSearches(userId): findMany ordered by timestamp *)
(* descending, take 5.  Rows of equal timestamp come in the store's order. *)
(***************************************************************************)
RecentLimit == 5

\* orderBy: {timestamp: 'asc'}
RECURSIVE OrderByTimestampAsc(_, _)
OrderByTimestampAsc(rows, take) ==
    IF rows = {} \/ take = 0 THEN {<<>>}
    ELSE LET oldest == {r \in rows : \A o \in rows : r.timestamp <= o.timestamp}
         IN  UNION {{<<r>> \o rest :
                        rest \in OrderByTimestampAsc(rows \ {r}, take - 1)} :
                    r \in oldest}

RECURSIVE OrderByTimestampDesc(_, _)
OrderByTimestampDesc(rows, take) ==
    IF rows = {} \/ take = 0 THEN {<<>>}
    ELSE LET newest == {r \in rows : \A o \in rows : o.timestamp <= r.timestamp}
         IN  UNION {{<<r>> \o rest :
                        rest \in OrderByTimestampDesc(rows \ {r}, take - 1)} :
                    r \in newest}

FormatSearch(search) ==
    [id |-> search.id, cityId |-> search.cityId,
     city |-> [name |-> city[search.cityId].name,
               latitude |-> city[search.cityId].latitude,
               longitude |-> city[search.cityId].longitude]]

GetRecentSearches(userId) ==
    LET mine == {s \in Rows(weatherSearch) : s.userId = userId}
    IN  {[i \in 1 .. Len(found) |-> FormatSearch(found[i])] :
            found \in OrderByTimestampDesc(mine, RecentLimit)}

(***************************************************************************)
(* WeatherService.getFavoriteCities(userId): findMany without orderBy,     *)
(* whose rows come in the store's order.                                   *)
(***************************************************************************)
RECURSIVE FindManyUnordered(_)
FindManyUnordered(rows) ==
    IF rows = {} THEN {<<>>}
    ELSE UNION {{<<r>> \o rest : rest \in FindManyUnordered(rows \ {r})} :
                r \in rows}

FormatFavorite(favorite) ==
    [id |-> favorite.id, cityId |-> favorite.cityId,
     city |-> [name |-> city[favorite.cityId].name,
               latitude |-> city[favorite.cityId].latitude,
               longitude |-> city[favorite.cityId].longitude]]

GetFavoriteCities(userId) ==
    LET mine == {f \in Rows(favoriteCity) : f.userId = userId}
    IN  {[i \in 1 .. Len(found) |-> FormatFavorite(found[i])] :
            found \in FindManyUnordered(mine)}

(***************************************************************************)
(* UserService.registerUser(userData).                                     *)
(***************************************************************************)
RegisterUser(email, password, homeCity) ==
    IF \E u \in Rows(user) : u.email = email
    THEN [user |-> user, error |-> "EmailExists"]
    ELSE [user |-> Append(user, [id |-> userAutoIncrement + 1,
                                 email |-> email,
                                 password |-> BcryptHash(password),
                                 city |-> homeCity]),
          error |-> ""]

(***************************************************************************)
(* UserService.loginUser({email, password}): the row of the email, then    *)
(* bcrypt.compare against its stored hash.                                 *)
(***************************************************************************)
\* a login that does not compare the password
LoginUserAnyPassword(email, password) ==
    LET found == {u \in Rows(user) : u.email = email}
    IN  IF found = {}
        THEN [error |-> "UserNotFound", userId |-> UndefinedNum]
        ELSE [error |-> "", userId |-> (CHOOSE u \in found : TRUE).id]

LoginUser(email, password) ==
    LET found == {u \in Rows(user) : u.email = email}
    IN  IF found = {}
        THEN [error |-> "UserNotFound", userId |-> UndefinedNum]
        ELSE LET u == CHOOSE u \in found : TRUE
             IN  IF ~BcryptCompare(password, u.password)
                 THEN [error |-> "IncorrectPassword", userId |-> UndefinedNum]
                 ELSE [error |-> "", userId |-> u.id]

(***************************************************************************)
(* The two store calls that write an email.  User_email_key is a UNIQUE    *)
(* index: the store rejects an insert or an update that would give two     *)
(* rows the same email.                                                    *)
(***************************************************************************)
\* an insert into a User table without User_email_key
CreateUserUnindexed(users, id, email, hashedPassword, homeCity) ==
    [user |-> Append(users, [id |-> id, email |-> email,
                             password |-> hashedPassword, city |-> homeCity]),
     error |-> ""]

\* prisma.user.create({data: {email, ..., city, ...}})
CreateUser(users, id, email, hashedPassword, homeCity) ==
    IF \E u \in Rows(users) : u.email = email
    THEN [user |-> users, error |-> "StorageError"]
    ELSE [user |-> Append(users,
                          [id |-> id, email |-> email,
                           password |-> hashedPassword, city |-> homeCity]),
          error |-> ""]

\* prisma.user.update({where: {id: userId}, data: userData}): throws when no
\* row has the id; an undefined field of data is left as it is
UpdateUser(users, userId, email, homeCity) ==
    IF \A u \in Rows(users) : u.id # userId
    THEN [user |-> users, error |-> "StorageError"]
    ELSE IF /\ email # Undefined
            /\ \E u \in Rows(users) : u.id # userId /\ u.email = email
    THEN [user |-> users, error |-> "StorageError"]
    ELSE [user |-> [i \in DOMAIN users |->
                      IF users[i].id = userId
                      THEN [users[i] EXCEPT
                              !.email = IF email = Undefined THEN @ ELSE email,
                              !.city = IF homeCity = Undefined THEN @
                                       ELSE homeCity]
                      ELSE users[i]],
          error |-> ""]

(***************************************************************************)
(* UserService.deleteUserProfile(userId): prisma.user.delete, which throws *)
(* when no row has the id and which FavoriteCity_userId_fkey and           *)
(* WeatherSearch_userId_fkey (ON DELETE RESTRICT) reject while a row of    *)
(* either table references the user.                                       *)
(***************************************************************************)
\* a delete that no foreign key restricts
DeleteUserUnrestricted(userId) ==
    IF ~UserExists(userId)
    THEN [user |-> user, error |-> "UserNotFound"]
    ELSE [user |-> SelectSeq(user, LAMBDA u : u.id # userId), error |-> ""]

DeleteUserProfile(userId) ==
    IF ~UserExists(userId)
    THEN [user |-> user, error |-> "UserNotFound"]
    ELSE IF \/ \E f \in Rows(favoriteCity) : f.userId = userId
            \/ \E w \in Rows(weatherSearch) : w.userId = userId
    THEN [user |-> user, error |-> "StorageError"]
    ELSE [user |-> SelectSeq(user, LAMBDA u : u.id # userId), error |-> ""]

(***************************************************************************)
(* Requests in progress.  A handler that is followed step by step runs as  *)
(* one of the processes Procs: proc[p] holds where it stands (pc), what it *)
(* was asked (op, userId, name), the rows its lookups returned (cityId,    *)
(* rowId: 0 for null), whether it inserted the City row (created), the     *)
(* provider record it holds (resp), the list it                            *)
(* walks and its position in it (list, i), the provider queries it has     *)
(* issued and not yet had answered (inflight), those it has issued in all  *)
(* (calls), the records it has collected (results) and, once it is over    *)
(* (pc = "done"), the error it ended with.                                 *)
(***************************************************************************)
Procs == {1, 2}

Idle ==
    [pc |-> "idle", op |-> "none", userId |-> 0, name |-> Undefined,
     cityId |-> 0, rowId |-> 0, created |-> FALSE, resp |-> ProviderFailure,
     list |-> <<>>,
     i |-> 0, inflight |-> {}, calls |-> <<>>, results |-> <<>>,
     city |-> Undefined, password |-> Secret, sid |-> 0, destroy |-> "none",
     sends |-> 0, status |-> 0, error |-> ""]

(***************************************************************************)
(* The request handlers.  A request arrives elapsed time units after the   *)
(* one before it.  last describes the request handled most recently: what  *)
(* it asked for (the query or descriptor the handler worked on), whether   *)
(* the service was entered, the error it ended with ("" for success), the  *)
(* city it resolved, whether it created that City row and the provider     *)
(* queries it issued; seq flips with every request.  response is the list  *)
(* that request returned.                                                  *)
(***************************************************************************)
Request(op, userId, name, lat, lon, svc, error, cityId, created, calls) ==
    [seq |-> 1 - last.seq, op |-> op, userId |-> userId, name |-> name,
     lat |-> lat, lon |-> lon, svc |-> svc, error |-> error, cityId |-> cityId, created |-> created,
     calls |-> calls]

Init ==
    /\ user = <<>>
    /\ userAutoIncrement = 0
    /\ city = <<>>
    /\ favoriteCity = <<>>
    /\ weatherSearch = <<>>
    /\ now = 0
    /\ last = [seq |-> 0, op |-> "none", userId |-> 0, name |-> Undefined,
               lat |-> Undefined, lon |-> Undefined, svc |-> FALSE,
               error |-> "", cityId |-> 0, created |-> FALSE, calls |-> <<>>]
    /\ response = <<>>
    /\ proc = [p \in Procs |-> Idle]
    /\ session = [s \in Sessions |-> NoSession]

\* POST /user/register
RegisterUserRequest(email, password, homeCity, elapsed) ==
    LET o == RegisterUser(email, password, homeCity)
    IN  /\ now' = now + elapsed
        /\ user' = o.user
        /\ userAutoIncrement' = userAutoIncrement + Len(o.user) - Len(user)
        /\ last' = Request("registerUser", 0, email, Undefined, Undefined,
                           TRUE, o.error, 0, FALSE, <<>>)
        /\ response' = <<>>
        /\ UNCHANGED <<city, favoriteCity, weatherSearch, proc, session>>

\* DELETE /user/profile (the controller names the service method
\* deleteUserById)
DeleteUserProfileRequest(userId) ==
    LET o == DeleteUserProfile(userId)
    IN  /\ user' = o.user
        /\ last' = Request("deleteUserProfile", userId, Undefined, Undefined,
                           Undefined, TRUE, o.error, 0, FALSE, <<>>)
        /\ response' = <<>>
        /\ UNCHANGED <<userAutoIncrement, city, favoriteCity, weatherSearch,
                       now, proc, session>>

\* what a weather handler does with the outcome of its service call
Apply(op, userId, name, lat, lon, o) ==
    /\ city' = o.city
    /\ favoriteCity' = o.favoriteCity
    /\ weatherSearch' = o.weatherSearch
    /\ last' = Request(op, userId, name, lat, lon, TRUE, o.error, o.cityId,
                       Len(o.city) > Len(city), o.calls)
    /\ response' = <<>>
    /\ UNCHANGED <<user, userAutoIncrement, proc, session>>

\* the handler threw before it called the service
Reject(op, userId, name, lat, lon, error) ==
    /\ last' = Request(op, userId, name, lat, lon, FALSE, error, 0, FALSE, <<>>)
    /\ response' = <<>>
    /\ UNCHANGED <<tables, userAutoIncrement, proc, session>>

\* GET /weather/search?q=&lat=&lon=
SearchWeatherRequest(q, lat, lon, userId, resp, elapsed) ==
    /\ now' = now + elapsed
    /\ IF FalsyStr(q) /\ (lat = Undefined \/ lon = Undefined)
       THEN Reject("searchWeather", userId, q, lat, lon, "InvalidInput")
       ELSE LET queryParameters ==
                    IF ~FalsyStr(q)
                    THEN [q |-> q, lat |-> Undefined, lon |-> Undefined]
                    ELSE [q |-> Undefined, lat |-> lat, lon |-> lon]
            IN  \E o \in SearchWeather(queryParameters, userId, TRUE, resp,
                                       now + elapsed) :
                    Apply("searchWeather", userId, queryParameters.q,
                          queryParameters.lat, queryParameters.lon, o)

\* POST /weather/favorites {name, latitude, longitude}
AddToFavoritesRequest(name, latitude, longitude, userId, elapsed) ==
    LET lat == ToNumber(latitude)
        lon == ToNumber(longitude)
    IN  /\ now' = now + elapsed
        /\ IF FalsyStr(name) /\ FalsyNum(lat) /\ FalsyNum(lon)
           THEN Reject("addToFavorites", userId, name, latitude, longitude,
                       "InvalidInput")
           ELSE \E o \in AddToFavorites([name |-> name, latitude |-> lat,
                                         longitude |-> lon], userId) :
                    Apply("addToFavorites", userId, name, latitude,
                          longitude, o)

\* GET /weather
GetUserWeatherRequest(userId, resp, elapsed) ==
    LET o == GetWeather(userId, resp)
    IN  /\ now' = now + elapsed
        /\ last' = Request("getWeather", userId, Undefined, Undefined,
                           Undefined, TRUE, o.error, 0, FALSE, o.calls)
        /\ response' = o.result
        /\ UNCHANGED <<tables, userAutoIncrement, proc, session>>

\* GET /weather/recent
GetRecentSearchesRequest(userId, elapsed) ==
    /\ now' = now + elapsed
    /\ \E result \in GetRecentSearches(userId) :
           /\ response' = result
           /\ last' = Request("getRecentSearches", userId, Undefined,
                              Undefined, Undefined, TRUE, "", 0, FALSE, <<>>)
           /\ UNCHANGED <<tables, userAutoIncrement, proc, session>>

\* GET /weather/favorites
GetFavoriteCitiesRequest(userId) ==
    \E favoriteCities \in GetFavoriteCities(userId) :
        /\ response' = favoriteCities
        /\ last' = Request("getFavoriteCities", userId, Undefined, Undefined,
                           Undefined, TRUE, "", 0, FALSE, <<>>)
        /\ UNCHANGED <<tables, userAutoIncrement, now, proc, session>>

(***************************************************************************)
(* WeatherService.getFavoriteCitiesWeather(userId) and                     *)
(* getRecentSearchesWeather(userId), followed from await to await: read    *)
(* the list, then for each entry call searchWeather({q: entry.city.name},  *)
(* userId, false) and push what it returns.                                *)
(***************************************************************************)
FanOutOps == {"getFavoriteCitiesWeather", "getRecentSearchesWeather"}

\* the provider files a city it knows under the name it is asked for
ProviderAnswers(q) == {l \in Locations : l.name = q} \cup {ProviderFailure}

\* searchWeather's third parameter left out: addToRecentSearch = true
AddToRecentSearchDefault == TRUE

\* the third argument of the searchWeather call in the loop
AddToRecentSearchArgument == FALSE

EnterFanOut(p, op, userId, entries) ==
    /\ proc[p].pc = "idle"
    /\ proc' = [proc EXCEPT ![p] = [Idle EXCEPT !.pc = "loop", !.op = op,
                                                !.userId = userId,
                                                !.list = entries]]
    /\ UNCHANGED <<tables, userAutoIncrement, now, last, response, session>>

\* GET /weather/favorites-weather
GetFavoriteCitiesWeather(p, userId) ==
    \E favoriteCities \in GetFavoriteCities(userId) :
        EnterFanOut(p, "getFavoriteCitiesWeather", userId, favoriteCities)

\* GET /weather/recent-weather
GetRecentSearchesWeather(p, userId) ==
    \E recentSearches \in GetRecentSearches(userId) :
        EnterFanOut(p, "getRecentSearchesWeather", userId, recentSearches)

\* a loop that starts the calls for all the entries together
ForOfAtOnce(p) ==
    LET r == proc[p]
    IN  /\ r.pc = "loop"
        /\ r.op \in FanOutOps
        /\ proc' = [proc EXCEPT ![p] =
                IF r.i < Len(r.list)
                THEN [r EXCEPT !.pc = "await",
                               !.inflight = 1 .. Len(r.list),
                               !.calls = [k \in 1 .. Len(r.list) |->
                                             r.list[k].city.name]]
                ELSE [r EXCEPT !.pc = "done"]]
        /\ UNCHANGED <<tables, userAutoIncrement, now, last, response,
                       session>>

\* the head of the loop: the next entry's searchWeather call up to its
\* axios.get, or the return after the last entry
ForOf(p) ==
    LET r == proc[p]
    IN  /\ r.pc = "loop"
        /\ r.op \in FanOutOps
        /\ proc' = [proc EXCEPT ![p] =
                IF r.i < Len(r.list)
                THEN LET q == r.list[r.i + 1].city.name
                     IN  IF FalsyStr(q)
                         THEN [r EXCEPT !.pc = "done",
                                        !.error = "InvalidInput"]
                         ELSE [r EXCEPT !.pc = "await",
                                        !.inflight = r.inflight \cup {r.i + 1},
                                        !.calls = Append(r.calls, q)]
                ELSE [r EXCEPT !.pc = "done"]]
        /\ UNCHANGED <<tables, userAutoIncrement, now, last, response,
                       session>>

\* a loop body that leaves out the city whose call failed and goes on
PushOrSkip(r, k, resp, error) ==
    LET rest == r.inflight \ {k}
    IN  [r EXCEPT !.results = IF error # "" THEN r.results
                              ELSE Append(r.results, resp),
                  !.i = r.i + 1,
                  !.inflight = rest,
                  !.pc = IF rest = {} THEN "loop" ELSE "await"]

\* weatherData = await searchWeather(...); push(weatherData) -- or the throw
\* that leaves the loop for the catch
Push(r, k, resp, error) ==
    LET rest == r.inflight \ {k}
    IN  IF error # ""
        THEN [r EXCEPT !.pc = "done", !.error = error, !.inflight = {}]
        ELSE [r EXCEPT !.results = Append(r.results, resp),
                       !.i = r.i + 1,
                       !.inflight = rest,
                       !.pc = IF rest = {} THEN "loop" ELSE "await"]

\* the provider answers a call in flight, and searchWeather runs on from its
\* axios.get to its end
ProviderReturn(p, resp) ==
    LET r == proc[p]
    IN  /\ r.pc = "await"
        /\ r.op \in FanOutOps
        /\ \E k \in r.inflight :
               LET q == r.list[k].city.name
               IN  /\ resp \in ProviderAnswers(q)
                   /\ \E o \in SearchWeather([q |-> q, lat |-> Undefined,
                                               lon |-> Undefined], r.userId,
                                              AddToRecentSearchArgument, resp,
                                              now) :
                          /\ city' = o.city
                          /\ favoriteCity' = o.favoriteCity
                          /\ weatherSearch' = o.weatherSearch
                          /\ proc' = [proc EXCEPT ![p] =
                                          Push(r, k, resp, o.error)]
        /\ UNCHANGED <<user, userAutoIncrement, now, last, response, session>>

\* the controller answers: what the service returned, or the error
Respond(p) ==
    LET r == proc[p]
    IN  /\ r.pc = "done"
        /\ last' = Request(r.op, r.userId, r.name, Undefined, Undefined,
                           TRUE, r.error, r.cityId, r.created, r.calls)
        /\ response' = IF r.error = "" THEN r.results ELSE <<>>
        /\ proc' = [proc EXCEPT ![p] = Idle]
        /\ UNCHANGED <<tables, userAutoIncrement, now, session>>

(***************************************************************************)
(* WeatherService.searchWeather({q}, userId) with history recording,       *)
(* followed from await to await: the provider call, then the four store    *)
(* calls find-city, create-city, find-record and update-or-insert, each of *)
(* which the store executes on its own.                                    *)
(***************************************************************************)
Step(p, r) ==
    /\ proc' = [proc EXCEPT ![p] = r]
    /\ UNCHANGED <<user, userAutoIncrement, last, response, session>>

\* a searchWeather that goes on to storage whatever the provider answered
SearchWeatherBeginUnchecked(p, q, userId, resp, elapsed) ==
    /\ proc[p].pc = "idle"
    /\ ~FalsyStr(q)
    /\ now' = now + elapsed
    /\ Step(p, [Idle EXCEPT !.op = "searchWeather", !.userId = userId,
                            !.name = q, !.resp = resp, !.calls = <<q>>,
                            !.pc = "findCity"])
    /\ UNCHANGED <<city, favoriteCity, weatherSearch>>

\* GET /weather/search?q= up to the answer to axios.get
SearchWeatherBegin(p, q, userId, resp, elapsed) ==
    /\ proc[p].pc = "idle"
    /\ ~FalsyStr(q)
    /\ now' = now + elapsed
    /\ Step(p, [Idle EXCEPT !.op = "searchWeather", !.userId = userId,
                            !.name = q, !.resp = resp, !.calls = <<q>>,
                            !.pc = IF resp = ProviderFailure THEN "done"
                                   ELSE "findCity",
                            !.error = IF resp = ProviderFailure
                                      THEN "ProviderError" ELSE ""])
    /\ UNCHANGED <<city, favoriteCity, weatherSearch>>

\* city = await prisma.city.findFirst({where: {name: query.q}})
FindCity(p) ==
    LET r == proc[p]
    IN  /\ r.pc = "findCity"
        /\ \E c \in FindFirstCityByName(city, r.name) :
               Step(p, [r EXCEPT !.cityId = c.id,
                                 !.pc = IF c = Null THEN "createCity"
                                        ELSE "findSearch"])
        /\ UNCHANGED <<city, favoriteCity, weatherSearch, now>>

\* if (!city) city = await prisma.city.create(...)
CreateCityIfMissing(p) ==
    LET r == proc[p]
        cities == CreateCity(city, r.resp.name, r.resp.lat, r.resp.lon)
    IN  /\ r.pc = "createCity"
        /\ city' = cities
        /\ Step(p, [r EXCEPT !.cityId = Len(cities), !.created = TRUE,
                             !.pc = "findSearch"])
        /\ UNCHANGED <<favoriteCity, weatherSearch, now>>

\* existingSearchRecord = await prisma.weatherSearch.findFirst(...)
FindSearchRecord(p) ==
    LET r == proc[p]
    IN  /\ r.pc = "findSearch"
        /\ \E e \in FindFirstByUserAndCity(weatherSearch, r.userId, r.cityId) :
               Step(p, [r EXCEPT !.rowId = e.id,
                                 !.pc = IF e = Null THEN "createSearch"
                                        ELSE "updateSearch"])
        /\ UNCHANGED <<city, favoriteCity, weatherSearch, now>>

\* await prisma.weatherSearch.update(...)
UpdateSearchRecord(p) ==
    LET r == proc[p]
    IN  /\ r.pc = "updateSearch"
        /\ weatherSearch' = UpdateWeatherSearch(weatherSearch, r.rowId, now)
        /\ Step(p, [r EXCEPT !.pc = "done"])
        /\ UNCHANGED <<city, favoriteCity, now>>

\* await prisma.weatherSearch.create(...), which WeatherSearch_userId_fkey
\* rejects for a user id without a row
CreateSearchRecord(p) ==
    LET r == proc[p]
    IN  /\ r.pc = "createSearch"
        /\ IF UserExists(r.userId)
           THEN /\ weatherSearch' = CreateWeatherSearch(weatherSearch, r.userId,
                                                        r.cityId, now)
                /\ Step(p, [r EXCEPT !.pc = "done"])
           ELSE /\ UNCHANGED weatherSearch
                /\ Step(p, [r EXCEPT !.pc = "done",
                                     !.error = "StorageError"])
        /\ UNCHANGED <<city, favoriteCity, now>>

(***************************************************************************)
(* WeatherService.addToFavorites(city, userId), followed from await to     *)
(* await: find-user, find-city, find-favorite, insert.                     *)
(***************************************************************************)
\* POST /weather/favorites with a complete descriptor, up to the first await
AddToFavoritesBegin(p, name, userId) ==
    /\ proc[p].pc = "idle"
    /\ ~FalsyStr(name)
    /\ Step(p, [Idle EXCEPT !.op = "addToFavorites", !.userId = userId,
                            !.name = name, !.pc = "findUser"])
    /\ UNCHANGED <<city, favoriteCity, weatherSearch, now>>

\* user = await prisma.user.findUnique(...); if (!user) throw
FindUser(p) ==
    LET r == proc[p]
    IN  /\ r.pc = "findUser"
        /\ Step(p, IF UserExists(r.userId)
                   THEN [r EXCEPT !.pc = "findCityByName"]
                   ELSE [r EXCEPT !.pc = "done", !.error = "UserNotFound"])
        /\ UNCHANGED <<city, favoriteCity, weatherSearch, now>>

\* existingCity = await prisma.city.findFirst({where: {name: city.name}})
FindCityByName(p) ==
    LET r == proc[p]
    IN  /\ r.pc = "findCityByName"
        /\ \E existingCity \in FindFirstCityByName(city, r.name) :
               Step(p, [r EXCEPT !.cityId = existingCity.id,
                                 !.pc = "findFavorite"])
        /\ UNCHANGED <<city, favoriteCity, weatherSearch, now>>

\* existingFavorite = await prisma.favoriteCity.findFirst(...), and the two
\* throws after it
FindFavorite(p) ==
    LET r == proc[p]
        \* cityId: existingCity?.id
        cityId == IF r.cityId = Null.id THEN UndefinedNum ELSE r.cityId
    IN  /\ r.pc = "findFavorite"
        /\ \E existingFavorite \in
                   FindFirstByUserAndCity(favoriteCity, r.userId, cityId) :
               Step(p, IF existingFavorite # Null
                       THEN [r EXCEPT !.pc = "done", !.rowId = existingFavorite.id,
                                      !.error = "AlreadyFavorited"]
                       ELSE IF r.cityId = Null.id
                       THEN [r EXCEPT !.pc = "done", !.error = "CityNotFound"]
                       ELSE [r EXCEPT !.pc = "createFavorite"])
        /\ UNCHANGED <<city, favoriteCity, weatherSearch, now>>

\* await prisma.favoriteCity.create(...), which FavoriteCity_userId_fkey
\* rejects for a user id without a row
CreateFavorite(p) ==
    LET r == proc[p]
    IN  /\ r.pc = "createFavorite"
        /\ IF UserExists(r.userId)
           THEN /\ favoriteCity' = CreateFavoriteCity(favoriteCity, r.userId,
                                                      r.cityId)
                /\ Step(p, [r EXCEPT !.pc = "done"])
           ELSE /\ UNCHANGED favoriteCity
                /\ Step(p, [r EXCEPT !.pc = "done", !.error = "StorageError"])
        /\ UNCHANGED <<city, weatherSearch, now>>

(***************************************************************************)
(* The system: any request, with any input, at any time.  Spec follows the *)
(* search history (register, search, list recent searches).                *)
(***************************************************************************)
Elapsed == {0, 1}

Bounded ==
    /\ Len(city) <= MaxCities
    /\ Len(weatherSearch) <= MaxSearches
    /\ now <= MaxTime

\* the queries of well-formed search requests: a city name, or a coordinate pair
SearchQueries ==
    {[q |-> n, lat |-> Undefined, lon |-> Undefined] : n \in Names}
        \cup {[q |-> Undefined, lat |-> "7", lon |-> "7"]}

\* the queries of malformed ones: no city name, and not both coordinates
MalformedQueries ==
    {query \in [q : {Undefined, ""}, lat : CoordInputs, lon : CoordInputs] :
        query.lat = Undefined \/ query.lon = Undefined}

\* one visitor registers, and may try again
RegisterEmails == {Emails[1]}

\* the users and the city of SpecWeatherOps
OpsUserIds == {1, 2}
OpsNames == {"Pokhara"}

Next ==
    \/ \E email \in RegisterEmails, password \in RegisterPasswords,
          homeCity \in HomeCities, elapsed \in Elapsed :
           RegisterUserRequest(email, password, homeCity, elapsed) /\ Bounded'
    \/ \E query \in SearchQueries \cup MalformedQueries, userId \in UserIds,
          resp \in ProviderResponses, elapsed \in Elapsed :
           SearchWeatherRequest(query.q, query.lat, query.lon, userId, resp,
                                elapsed) /\ Bounded'
    \/ \E userId \in UserIds, elapsed \in Elapsed :
           GetRecentSearchesRequest(userId, elapsed) /\ Bounded'

Spec == Init /\ [][Next]_vars

(***************************************************************************)
(* SpecFavorites follows the favorites: register, search by name (which    *)
(* is what creates City rows) and add-to-favorites with any descriptor.    *)
(***************************************************************************)
BoundedFavorites ==
    /\ Bounded
    /\ Len(favoriteCity) <= MaxFavorites

NextFavorites ==
    \/ \E email \in RegisterEmails, password \in RegisterPasswords,
          homeCity \in HomeCities :
           RegisterUserRequest(email, password, homeCity, 0)
           /\ BoundedFavorites'
    \/ \E q \in Names, userId \in UserIds, resp \in Locations :
           SearchWeatherRequest(q, Undefined, Undefined, userId, resp, 0)
               /\ BoundedFavorites'
    \/ \E name \in NameInputs, latitude \in CoordInputs,
          longitude \in CoordInputs, userId \in UserIds :
           AddToFavoritesRequest(name, latitude, longitude, userId, 0)
               /\ BoundedFavorites'

SpecFavorites == Init /\ [][NextFavorites]_vars

(***************************************************************************)
(* SpecRecent follows the recent-searches list of visitors who searched    *)
(* more cities than the list holds.                                        *)
(***************************************************************************)
RecentUserIds == {1, 2}

\* registrations in the order of the addresses
NextEmail == {Emails[i] : i \in {Len(user) + 1} \cap DOMAIN Emails}

\* the first visitor searches, one time unit apart, a point the provider
\* files under a city elsewhere (a new City row each time) and, in between,
\* a city by its name (a new row once, the same row afterwards); the second
\* visitor searches that city too
RecentSearches ==
    { [q |-> Undefined, lat |-> "7", lon |-> "0", userId |-> 1,
       resp |-> Pokhara, elapsed |-> 1],
      [q |-> "Paris", lat |-> Undefined, lon |-> Undefined, userId |-> 1,
       resp |-> Paris, elapsed |-> 0],
      [q |-> "Paris", lat |-> Undefined, lon |-> Undefined, userId |-> 2,
       resp |-> Paris, elapsed |-> 0] }

BoundedRecent ==
    /\ Len(city) <= MaxRecentCities
    /\ now <= MaxRecentTime

NextRecent ==
    \/ \E email \in NextEmail, password \in RegisterPasswords,
          homeCity \in HomeCities :
           RegisterUserRequest(email, password, homeCity, 0) /\ BoundedRecent'
    \/ \E search \in RecentSearches :
           SearchWeatherRequest(search.q, search.lat, search.lon,
                                search.userId, search.resp, search.elapsed)
               /\ BoundedRecent'
    \/ \E userId \in RecentUserIds :
           \* listing twice in a row changes nothing in between
           /\ last.op # "getRecentSearches"
           /\ GetRecentSearchesRequest(userId, 0) /\ BoundedRecent'

SpecRecent == Init /\ [][NextRecent]_vars

(***************************************************************************)
(* SpecWeather follows the provider: two visitors with different home      *)
(* cities register, search, and ask for the weather at home.               *)
(***************************************************************************)
WeatherUserIds == {0, 1, 2}

BoundedWeather ==
    /\ Len(city) <= MaxWeatherCities
    /\ Len(weatherSearch) <= MaxWeatherSearches

NextWeather ==
    \/ \E email \in NextEmail, password \in RegisterPasswords,
          homeCity \in Names :
           RegisterUserRequest(email, password, homeCity, 0) /\ BoundedWeather'
    \/ \E query \in SearchQueries \cup MalformedQueries,
          userId \in WeatherUserIds, resp \in ProviderResponses :
           SearchWeatherRequest(query.q, query.lat, query.lon, userId, resp, 0)
               /\ BoundedWeather'
    \/ \E userId \in WeatherUserIds, resp \in ProviderResponses :
           GetUserWeatherRequest(userId, resp, 0) /\ BoundedWeather'

SpecWeather == Init /\ [][NextWeather]_vars

(***************************************************************************)
(* SpecFanOut follows the two weather lists: a visitor searches cities by  *)
(* name, makes them favorites, and asks for the weather of the favorites   *)
(* and of the recent searches while the other requests go on.              *)
(***************************************************************************)
FanOutProcs == {1}

FanOutUserIds == {1}

BoundedFanOut ==
    /\ Len(city) <= MaxFanOutCities
    /\ Len(favoriteCity) <= MaxFanOutFavorites
    /\ now <= MaxFanOutTime

NextFanOut ==
    \/ \E email \in RegisterEmails, password \in RegisterPasswords,
          homeCity \in HomeCities :
           RegisterUserRequest(email, password, homeCity, 0) /\ BoundedFanOut'
    \/ \E q \in Names, userId \in FanOutUserIds, resp \in Locations,
          elapsed \in Elapsed :
           /\ resp.name = q
           /\ SearchWeatherRequest(q, Undefined, Undefined, userId, resp,
                                   elapsed)
           /\ BoundedFanOut'
    \/ \E name \in Names, userId \in FanOutUserIds :
           AddToFavoritesRequest(name, "7", "7", userId, 0) /\ BoundedFanOut'
    \/ \E p \in FanOutProcs, userId \in FanOutUserIds :
           GetFavoriteCitiesWeather(p, userId) /\ BoundedFanOut'
    \/ \E p \in FanOutProcs, userId \in FanOutUserIds :
           GetRecentSearchesWeather(p, userId) /\ BoundedFanOut'
    \/ \E p \in FanOutProcs : ForOf(p) /\ BoundedFanOut'
    \/ \E p \in FanOutProcs, resp \in ProviderResponses :
           ProviderReturn(p, resp) /\ BoundedFanOut'
    \/ \E p \in FanOutProcs : Respond(p) /\ BoundedFanOut'

SpecFanOut == Init /\ [][NextFanOut]_vars

(***************************************************************************)
(* SpecSearchRace follows searches by name that overlap in time (all of    *)
(* them within one tick of the clock).                                     *)
(***************************************************************************)
\* one visitor, who may search before the registration went through
RaceUserIds == {1}

BoundedRace ==
    /\ Len(city) <= MaxRaceCities
    /\ Len(weatherSearch) <= MaxRaceSearches

NextSearchRace ==
    \/ \E email \in RegisterEmails, password \in RegisterPasswords,
          homeCity \in HomeCities :
           RegisterUserRequest(email, password, homeCity, 0) /\ BoundedRace'
    \/ \E p \in Procs, q \in Names, userId \in RaceUserIds :
           \E resp \in ProviderAnswers(q) :
               SearchWeatherBegin(p, q, userId, resp, 0) /\ BoundedRace'
    \/ \E p \in Procs : FindCity(p) /\ BoundedRace'
    \/ \E p \in Procs : CreateCityIfMissing(p) /\ BoundedRace'
    \/ \E p \in Procs : FindSearchRecord(p) /\ BoundedRace'
    \/ \E p \in Procs : UpdateSearchRecord(p) /\ BoundedRace'
    \/ \E p \in Procs : CreateSearchRecord(p) /\ BoundedRace'
    \/ \E p \in Procs : Respond(p) /\ BoundedRace'

SpecSearchRace == Init /\ [][NextSearchRace]_vars

(***************************************************************************)
(* SpecFavoritesRace follows add-to-favorites requests that overlap in     *)
(* time, for cities that searches have put into the City table.            *)
(***************************************************************************)
BoundedFavoritesRace ==
    /\ Len(city) <= MaxRaceCities
    /\ Len(favoriteCity) <= MaxRaceFavorites

NextFavoritesRace ==
    \/ \E email \in RegisterEmails, password \in RegisterPasswords,
          homeCity \in HomeCities :
           RegisterUserRequest(email, password, homeCity, 0)
           /\ BoundedFavoritesRace'
    \/ \E q \in Names, userId \in RaceUserIds, resp \in Locations :
           /\ resp.name = q
           /\ SearchWeatherRequest(q, Undefined, Undefined, userId, resp, 0)
           /\ BoundedFavoritesRace'
    \/ \E p \in Procs, name \in Names, userId \in RaceUserIds :
           AddToFavoritesBegin(p, name, userId) /\ BoundedFavoritesRace'
    \/ \E p \in Procs : FindUser(p) /\ BoundedFavoritesRace'
    \/ \E p \in Procs : FindCityByName(p) /\ BoundedFavoritesRace'
    \/ \E p \in Procs : FindFavorite(p) /\ BoundedFavoritesRace'
    \/ \E p \in Procs : CreateFavorite(p) /\ BoundedFavoritesRace'
    \/ \E p \in Procs : Respond(p) /\ BoundedFavoritesRace'

SpecFavoritesRace == Init /\ [][NextFavoritesRace]_vars

(***************************************************************************)
(* UserService.registerUser and UserService.updateUserProfile followed     *)
(* from await to await: the lookup by email, then the insert or the        *)
(* update.  (bcrypt.hash, between the lookup and the insert, touches no    *)
(* state.)                                                                 *)
(***************************************************************************)
\* the emails and home cities a profile update can carry (editProfileSchema:
\* every field optional, an email a valid address)
UpdateEmails == {Undefined} \cup Rows(Emails)

UpdateCities == {Undefined, "Paris"}

\* POST /user/register
RegisterUserBegin(p, email, password, homeCity) ==
    /\ proc[p].pc = "idle"
    /\ proc' = [proc EXCEPT ![p] =
                   [Idle EXCEPT !.op = "registerUser", !.name = email,
                                !.password = password,
                                !.city = homeCity, !.pc = "findEmail"]]
    /\ UNCHANGED <<tables, userAutoIncrement, now, last, response, session>>

\* PATCH /user/profile: if (userData.email) guards the lookup
UpdateUserProfileBegin(p, userId, email, homeCity) ==
    /\ proc[p].pc = "idle"
    /\ proc' = [proc EXCEPT ![p] =
                   [Idle EXCEPT !.op = "updateUserProfile",
                                !.userId = userId, !.name = email,
                                !.city = homeCity,
                                !.pc = IF FalsyStr(email) THEN "updateUser"
                                       ELSE "findEmail"]]
    /\ UNCHANGED <<tables, userAutoIncrement, now, last, response, session>>

\* existingUser = await prisma.user.findUnique({where: {email}}) and the
\* throw after it: if (existingUser) in registerUser,
\* if (existingUser && existingUser.id !== userId) in updateUserProfile
FindExistingUser(p) ==
    LET r == proc[p]
        existingUser == {u \in Rows(user) : u.email = r.name}
        taken == IF r.op = "registerUser"
                 THEN existingUser # {}
                 ELSE \E u \in existingUser : u.id # r.userId
    IN  /\ r.pc = "findEmail"
        /\ proc' = [proc EXCEPT ![p] =
                       IF taken
                       THEN [r EXCEPT !.pc = "done", !.error = "EmailExists"]
                       ELSE IF r.op = "registerUser"
                       THEN [r EXCEPT !.pc = "createUser"]
                       ELSE [r EXCEPT !.pc = "updateUser"]]
        /\ UNCHANGED <<tables, userAutoIncrement, now, last, response,
                       session>>

\* await prisma.user.create(...); the store hands out the next id whether or
\* not the insert then passes the unique index
CreateUserRow(p) ==
    LET r == proc[p]
        o == CreateUser(user, userAutoIncrement + 1, r.name,
                        BcryptHash(r.password), r.city)
    IN  /\ r.pc = "createUser"
        /\ user' = o.user
        /\ userAutoIncrement' = userAutoIncrement + 1
        /\ proc' = [proc EXCEPT ![p] =
                       [r EXCEPT !.pc = "done", !.error = o.error]]
        /\ UNCHANGED <<city, favoriteCity, weatherSearch, now, last, response,
                       session>>

\* await prisma.user.update(...)
UpdateUserRow(p) ==
    LET r == proc[p]
        o == UpdateUser(user, r.userId, r.name, r.city)
    IN  /\ r.pc = "updateUser"
        /\ user' = o.user
        /\ proc' = [proc EXCEPT ![p] =
                       [r EXCEPT !.pc = "done", !.error = o.error]]
        /\ UNCHANGED <<userAutoIncrement, city, favoriteCity, weatherSearch,
                       now, last, response, session>>

(***************************************************************************)
(* SpecUsers: registrations and profile updates of two requests at a time, *)
(* in every interleaving of their store calls.                             *)
(***************************************************************************)
ProfileUserIds == 1 .. MaxProfileUserId

BoundedUsers == userAutoIncrement <= MaxProfileUserId

NextUsers ==
    \/ \E p \in Procs, email \in Rows(Emails), password \in RegisterPasswords,
          homeCity \in HomeCities :
           RegisterUserBegin(p, email, password, homeCity)
    \/ \E p \in Procs, userId \in ProfileUserIds, email \in UpdateEmails,
          homeCity \in UpdateCities :
           UpdateUserProfileBegin(p, userId, email, homeCity)
    \/ \E p \in Procs : FindExistingUser(p)
    \/ \E p \in Procs : CreateUserRow(p) /\ BoundedUsers'
    \/ \E p \in Procs : UpdateUserRow(p)
    \/ \E p \in Procs : Respond(p)

SpecUsers == Init /\ [][NextUsers]_vars

(***************************************************************************)
(* Sessions.  POST /user/login sets req.session.userId; authenticateUser,  *)
(* in front of every /weather route and of the logout, profile, password   *)
(* and delete-profile routes, lets a request through only if its session   *)
(* has a userId.                                                           *)
(***************************************************************************)
\* POST /user/login {email, password}
LoginUserRequest(s, email, password) ==
    LET o == LoginUser(email, password)
    IN  /\ session' = IF o.error = ""
                      THEN [session EXCEPT ![s] = [userId |-> o.userId]]
                      ELSE session
        /\ last' = Request("loginUser", session'[s].userId, email, Undefined,
                           Undefined, TRUE, o.error, 0, FALSE, <<>>)
        /\ response' = <<>>
        /\ UNCHANGED <<tables, userAutoIncrement, now, proc>>

\* if (req.session && req.session.userId) next()
AuthenticateUser(s) == ~FalsyNum(session[s].userId)

\* else res.status(401).json(ApiResponse.error('Unauthorized'))
Unauthorized(op) ==
    /\ Reject(op, 0, Undefined, Undefined, Undefined, "Unauthorized")
    /\ UNCHANGED now

\* const userId = req.session.userId ?? 0
SessionUserId(s) ==
    IF session[s].userId = UndefinedNum THEN 0 ELSE session[s].userId

\* the seven routes of router.use('/weather', authenticateUser, weatherRoutes)
GetUserWeatherRoute(s, resp) ==
    IF AuthenticateUser(s)
    THEN GetUserWeatherRequest(SessionUserId(s), resp, 0)
    ELSE Unauthorized("getWeather")

SearchWeatherRoute(s, q, lat, lon, resp) ==
    IF AuthenticateUser(s)
    THEN SearchWeatherRequest(q, lat, lon, SessionUserId(s), resp, 0)
    ELSE Unauthorized("searchWeather")

GetRecentSearchesRoute(s) ==
    IF AuthenticateUser(s)
    THEN GetRecentSearchesRequest(SessionUserId(s), 0)
    ELSE Unauthorized("getRecentSearches")

GetRecentSearchesWeatherRoute(p, s) ==
    IF AuthenticateUser(s)
    THEN GetRecentSearchesWeather(p, SessionUserId(s))
    ELSE Unauthorized("getRecentSearchesWeather")

AddToFavoritesRoute(s, name, latitude, longitude) ==
    IF AuthenticateUser(s)
    THEN AddToFavoritesRequest(name, latitude, longitude, SessionUserId(s), 0)
    ELSE Unauthorized("addToFavorites")

GetFavoriteCitiesRoute(s) ==
    IF AuthenticateUser(s)
    THEN GetFavoriteCitiesRequest(SessionUserId(s))
    ELSE Unauthorized("getFavoriteCities")

GetFavoriteCitiesWeatherRoute(p, s) ==
    IF AuthenticateUser(s)
    THEN GetFavoriteCitiesWeather(p, SessionUserId(s))
    ELSE Unauthorized("getFavoriteCitiesWeather")

\* GET /user/profile: UserService.getUserProfile (the controller names it
\* getUserById), the row without its password
GetUserProfileRoute(s) ==
    IF AuthenticateUser(s)
    THEN LET found == {u \in Rows(user) : u.id = session[s].userId}
         IN  /\ response' = IF found = {} THEN <<>>
                            ELSE LET u == CHOOSE u \in found : TRUE
                                 IN  <<[id |-> u.id, email |-> u.email,
                                        city |-> u.city]>>
             /\ last' = Request("getUserProfile", session[s].userId,
                                Undefined, Undefined, Undefined, TRUE,
                                IF found = {} THEN "UserNotFound" ELSE "", 0,
                                FALSE, <<>>)
             /\ UNCHANGED <<tables, userAutoIncrement, now, proc, session>>
    ELSE Unauthorized("getUserProfile")

\* profileUpdateValidation: editProfileSchema.validate(req.body), every
\* field optional, a string field not empty
ProfileUpdateValidation(email, homeCity) == email # "" /\ homeCity # ""

\* passwordUpdateValidation: updatePasswordSchema.validate(req.body)
PasswordUpdateValidation(oldPassword, newPassword) ==
    /\ Len(oldPassword.head) >= MinPasswordLength
    /\ Len(newPassword.head) >= MinPasswordLength

\* res.status(400).json(ApiResponse.error(error.message))
Invalid(op) ==
    /\ Reject(op, 0, Undefined, Undefined, Undefined, "InvalidInput")
    /\ UNCHANGED now

\* PATCH /user/profile: profileUpdateValidation, authenticateUser, and the
\* handler as a whole
UpdateUserProfileRoute(s, email, homeCity) ==
    IF ~ProfileUpdateValidation(email, homeCity)
    THEN Invalid("updateUserProfile")
    ELSE IF AuthenticateUser(s)
    THEN LET userId == session[s].userId
             taken == /\ ~FalsyStr(email)
                      /\ \E u \in Rows(user) :
                             u.email = email /\ u.id # userId
             o == IF taken THEN [user |-> user, error |-> "EmailExists"]
                  ELSE UpdateUser(user, userId, email, homeCity)
         IN  /\ user' = o.user
             /\ last' = Request("updateUserProfile", userId, email, Undefined,
                                Undefined, TRUE, o.error, 0, FALSE, <<>>)
             /\ response' = <<>>
             /\ UNCHANGED <<userAutoIncrement, city, favoriteCity,
                            weatherSearch, now, proc, session>>
    ELSE Unauthorized("updateUserProfile")

\* PATCH /user/password {oldPassword, newPassword}:
\* passwordUpdateValidation, authenticateUser, UserService.updateUserPassword
UpdateUserPasswordRoute(s, oldPassword, newPassword) ==
    IF ~PasswordUpdateValidation(oldPassword, newPassword)
    THEN Invalid("updateUserPassword")
    ELSE IF AuthenticateUser(s)
    THEN LET userId == session[s].userId
             found == {i \in DOMAIN user : user[i].id = userId}
             error == IF found = {} THEN "UserNotFound"
                      ELSE IF \E i \in found :
                                  ~BcryptCompare(oldPassword, user[i].password)
                      THEN "IncorrectPassword"
                      ELSE ""
         IN  /\ user' = IF error # "" THEN user
                        ELSE [i \in DOMAIN user |->
                                 IF i \in found
                                 THEN [user[i] EXCEPT
                                         !.password = BcryptHash(newPassword)]
                                 ELSE user[i]]
             /\ last' = Request("updateUserPassword", userId, Undefined,
                                Undefined, Undefined, TRUE, error, 0, FALSE,
                                <<>>)
             /\ response' = <<>>
             /\ UNCHANGED <<userAutoIncrement, city, favoriteCity,
                            weatherSearch, now, proc, session>>
    ELSE Unauthorized("updateUserPassword")

(***************************************************************************)
(* POST /user/logout and DELETE /user/profile, followed step by step: both *)
(* call req.session.destroy(callback), whose callback the session store    *)
(* runs later; deleteUserProfile goes on to await the deletion of the User *)
(* row meanwhile.  sends counts the res.json calls of the request, status  *)
(* is the status of the first (the one that reaches the client).           *)
(***************************************************************************)
SessionOps == {"logoutUser", "deleteUserProfile"}

\* res.status(status).json(...)
Send(r, status) ==
    [r EXCEPT !.sends = @ + 1,
              !.status = IF r.sends = 0 THEN status ELSE @]

\* logoutUser up to its return: req.session.destroy(...) is under way
LogoutUserBegin(p, s) ==
    /\ proc[p].pc = "idle"
    /\ IF AuthenticateUser(s)
       THEN /\ proc' = [proc EXCEPT ![p] =
                           [Idle EXCEPT !.op = "logoutUser", !.sid = s,
                                        !.userId = session[s].userId,
                                        !.destroy = "pending",
                                        !.pc = "returned"]]
            /\ UNCHANGED <<tables, userAutoIncrement, now, last, response,
                           session>>
       ELSE Unauthorized("logoutUser")

\* deleteUserProfile up to await userService.deleteUserById(userId):
\* req.session.destroy(...) is under way
DeleteUserProfileBegin(p, s) ==
    /\ proc[p].pc = "idle"
    /\ IF AuthenticateUser(s)
       THEN /\ proc' = [proc EXCEPT ![p] =
                           [Idle EXCEPT !.op = "deleteUserProfile", !.sid = s,
                                        !.userId = session[s].userId,
                                        !.destroy = "pending",
                                        !.pc = "deleteUser"]]
            /\ UNCHANGED <<tables, userAutoIncrement, now, last, response,
                           session>>
       ELSE Unauthorized("deleteUserProfile")

\* the store has destroyed the session (or failed to) and runs the callback
DestroyCallback(p, destroyed) ==
    LET r == proc[p]
        d == [r EXCEPT !.destroy = "done"]
    IN  /\ r.destroy = "pending"
        /\ session' = IF destroyed
                      THEN [session EXCEPT ![r.sid] = NoSession]
                      ELSE session
        /\ proc' = [proc EXCEPT ![p] =
                       IF ~destroyed
                       THEN Send([d EXCEPT !.error =
                                     IF @ = "" THEN "SessionError" ELSE @],
                                 500)
                       ELSE IF r.op = "logoutUser" THEN Send(d, 200)
                       ELSE d]
        /\ UNCHANGED <<tables, userAutoIncrement, now, last, response>>

\* the awaited deletion has settled: res.json(success), or the catch block
DeleteUserSettled(p) ==
    LET r == proc[p]
        o == DeleteUserProfile(r.userId)
    IN  /\ r.pc = "deleteUser"
        /\ user' = o.user
        /\ proc' = [proc EXCEPT ![p] =
                       IF o.error # ""
                       THEN Send([r EXCEPT !.pc = "returned",
                                           !.error = o.error], 500)
                       ELSE IF r.sends = 0
                       THEN Send([r EXCEPT !.pc = "returned"], 200)
                       \* res.json throws once a response has been sent,
                       \* and the catch block sends again
                       ELSE Send(Send([r EXCEPT !.pc = "returned"], 200),
                                 500)]
        /\ UNCHANGED <<userAutoIncrement, city, favoriteCity, weatherSearch,
                       now, last, response, session>>

\* the request is over: the handler has returned and the callback has run
EndRequest(p) ==
    LET r == proc[p]
    IN  /\ r.pc = "returned"
        /\ r.destroy = "done"
        /\ last' = Request(r.op, r.userId, Undefined, Undefined, Undefined,
                           TRUE, r.error, 0, FALSE, <<>>)
        /\ response' = <<>>
        /\ proc' = [proc EXCEPT ![p] = Idle]
        /\ UNCHANGED <<tables, userAutoIncrement, now, session>>

(***************************************************************************)
(* SpecDelete follows account deletion: a visitor registers, searches,     *)
(* adds favorites (step by step, so that a deletion can fall in between),  *)
(* deletes the account and registers again.                                *)
(***************************************************************************)
DeleteProcs == {1}

DeleteUserIds == {1, 2}

BoundedDelete ==
    /\ userAutoIncrement <= MaxUserId
    /\ Len(city) <= MaxDeleteCities
    /\ Len(favoriteCity) <= MaxDeleteFavorites
    /\ Len(weatherSearch) <= MaxDeleteSearches

NextDelete ==
    \/ \E email \in RegisterEmails, password \in RegisterPasswords,
          homeCity \in HomeCities :
           RegisterUserRequest(email, password, homeCity, 0) /\ BoundedDelete'
    \/ \E userId \in DeleteUserIds :
           DeleteUserProfileRequest(userId) /\ BoundedDelete'
    \/ \E p \in DeleteProcs, q \in Names, userId \in DeleteUserIds :
           \E resp \in ProviderAnswers(q) :
               SearchWeatherBegin(p, q, userId, resp, 0) /\ BoundedDelete'
    \/ \E p \in DeleteProcs : FindCity(p) /\ BoundedDelete'
    \/ \E p \in DeleteProcs : CreateCityIfMissing(p) /\ BoundedDelete'
    \/ \E p \in DeleteProcs : FindSearchRecord(p) /\ BoundedDelete'
    \/ \E p \in DeleteProcs : UpdateSearchRecord(p) /\ BoundedDelete'
    \/ \E p \in DeleteProcs : CreateSearchRecord(p) /\ BoundedDelete'
    \/ \E p \in DeleteProcs, name \in Names, userId \in DeleteUserIds :
           AddToFavoritesBegin(p, name, userId) /\ BoundedDelete'
    \/ \E p \in DeleteProcs : FindUser(p) /\ BoundedDelete'
    \/ \E p \in DeleteProcs : FindCityByName(p) /\ BoundedDelete'
    \/ \E p \in DeleteProcs : FindFavorite(p) /\ BoundedDelete'
    \/ \E p \in DeleteProcs : CreateFavorite(p) /\ BoundedDelete'
    \/ \E p \in DeleteProcs : Respond(p) /\ BoundedDelete'

SpecDelete == Init /\ [][NextDelete]_vars

(***************************************************************************)
(* SpecSession: the application behind its sessions.  Two browsers         *)
(* register, log in and out, use the weather routes and the profile        *)
(* routes, and delete their accounts.                                      *)
(***************************************************************************)
SessionProcs == {1}

SessionNames == {"Pokhara"}

BoundedSession ==
    /\ userAutoIncrement <= MaxSessionUserId
    /\ Len(city) <= MaxSessionCities
    /\ Len(favoriteCity) <= MaxSessionFavorites
    /\ Len(weatherSearch) <= MaxSessionSearches

NextSession ==
    \/ \E email \in RegisterEmails, password \in RegisterPasswords,
          homeCity \in HomeCities :
           RegisterUserRequest(email, password, homeCity, 0)
           /\ BoundedSession'
    \/ \E s \in Sessions, email \in Rows(Emails), password \in Passwords :
           LoginUserRequest(s, email, password)
    \/ \E s \in Sessions, q \in SessionNames :
           \E resp \in ProviderAnswers(q) : GetUserWeatherRoute(s, resp)
    \/ \E s \in Sessions, q \in SessionNames :
           \E resp \in ProviderAnswers(q) :
               SearchWeatherRoute(s, q, Undefined, Undefined, resp)
               /\ BoundedSession'
    \/ \E s \in Sessions : GetRecentSearchesRoute(s)
    \/ \E p \in SessionProcs, s \in Sessions :
           GetRecentSearchesWeatherRoute(p, s)
    \/ \E s \in Sessions, name \in SessionNames :
           AddToFavoritesRoute(s, name, "7", "7") /\ BoundedSession'
    \/ \E s \in Sessions : GetFavoriteCitiesRoute(s)
    \/ \E p \in SessionProcs, s \in Sessions :
           GetFavoriteCitiesWeatherRoute(p, s)
    \/ \E p \in SessionProcs : ForOf(p)
    \/ \E p \in SessionProcs, q \in SessionNames :
           \E resp \in ProviderAnswers(q) : ProviderReturn(p, resp)
    \/ \E p \in SessionProcs : Respond(p)
    \/ \E s \in Sessions : GetUserProfileRoute(s)
    \/ \E s \in Sessions, email \in RegisterEmails \cup {""} :
           UpdateUserProfileRoute(s, email, Undefined)
    \/ \E s \in Sessions, oldPassword \in Passwords \cup {TooShort},
          newPassword \in RegisterPasswords :
           UpdateUserPasswordRoute(s, oldPassword, newPassword)
    \/ \E p \in SessionProcs, s \in Sessions : LogoutUserBegin(p, s)
    \/ \E p \in SessionProcs, s \in Sessions : DeleteUserProfileBegin(p, s)
    \/ \E p \in SessionProcs, destroyed \in BOOLEAN :
           DestroyCallback(p, destroyed)
    \/ \E p \in SessionProcs : DeleteUserSettled(p)
    \/ \E p \in SessionProcs : EndRequest(p)

SpecSession == Init /\ [][NextSession]_vars

(***************************************************************************)
(* SpecLogin: registration, login, logout, and the two profile routes that *)
(* change what a login checks (the email and the password), for two users  *)
(* and two browsers.                                                       *)
(***************************************************************************)
BoundedLogin == userAutoIncrement <= MaxLoginUserId

NextLogin ==
    \/ \E email \in Rows(Emails), password \in Passwords,
          homeCity \in HomeCities :
           RegisterUserRequest(email, password, homeCity, 0) /\ BoundedLogin'
    \/ \E s \in Sessions, email \in Rows(Emails), password \in Passwords :
           LoginUserRequest(s, email, password)
    \/ \E s \in Sessions, email \in UpdateEmails \cup {""} :
           UpdateUserProfileRoute(s, email, Undefined)
    \/ \E s \in Sessions, oldPassword \in Passwords \cup {TooShort},
          newPassword \in Passwords :
           UpdateUserPasswordRoute(s, oldPassword, newPassword)
    \/ \E p \in SessionProcs, s \in Sessions : LogoutUserBegin(p, s)
    \/ \E p \in SessionProcs, destroyed \in BOOLEAN :
           DestroyCallback(p, destroyed)
    \/ \E p \in SessionProcs : EndRequest(p)

SpecLogin == Init /\ [][NextLogin]_vars

(***************************************************************************)
(* SpecWeatherOps: the seven operations of the weather service together,   *)
(* the two list-weather ones step by step, with the clock running.         *)
(***************************************************************************)
BoundedWeatherOps ==
    /\ Len(city) <= MaxOpsCities
    /\ Len(favoriteCity) <= MaxOpsFavorites
    /\ Len(weatherSearch) <= MaxOpsSearches
    /\ now <= MaxOpsTime

NextWeatherOps ==
    \/ \E email \in NextEmail, password \in RegisterPasswords,
          homeCity \in HomeCities :
           RegisterUserRequest(email, password, homeCity, 0)
           /\ BoundedWeatherOps'
    \/ \E userId \in OpsUserIds, resp \in ProviderResponses :
           GetUserWeatherRequest(userId, resp, 0)
    \/ \E q \in OpsNames, userId \in OpsUserIds, elapsed \in Elapsed :
           \E resp \in ProviderAnswers(q) :
               SearchWeatherRequest(q, Undefined, Undefined, userId, resp,
                                    elapsed) /\ BoundedWeatherOps'
    \/ \E name \in OpsNames, userId \in OpsUserIds :
           AddToFavoritesRequest(name, "7", "7", userId, 0)
           /\ BoundedWeatherOps'
    \/ \E userId \in OpsUserIds : GetFavoriteCitiesRequest(userId)
    \/ \E userId \in OpsUserIds : GetRecentSearchesRequest(userId, 0)
    \/ \E p \in FanOutProcs, userId \in OpsUserIds :
           GetFavoriteCitiesWeather(p, userId)
    \/ \E p \in FanOutProcs, userId \in OpsUserIds :
           GetRecentSearchesWeather(p, userId)
    \/ \E p \in FanOutProcs : ForOf(p)
    \/ \E p \in FanOutProcs, q \in OpsNames :
           \E resp \in ProviderAnswers(q) : ProviderReturn(p, resp)
    \/ \E p \in FanOutProcs : Respond(p)

SpecWeatherOps == Init /\ [][NextWeatherOps]_vars

(***************************************************************************)
(* Properties.                                                             *)
(***************************************************************************)
\* the step handles a request
NewRequest == last'.seq # last.seq

Registered(userId) == \E u \in Rows(user) : u.id = userId

SearchesOf(searches, userId, cityId) ==
    {r \in Rows(searches) : r.userId = userId /\ r.cityId = cityId}

FavoritesOf(favorites, userId, cityId) ==
    {f \in Rows(favorites) : f.userId = userId /\ f.cityId = cityId}

Recorded(request) ==
    request.op = "searchWeather" /\ request.svc /\ request.error = ""

\* C1: whatever searches came before, the WeatherSearch table never holds two
\* rows for one (user, city) pair; after a successful history-recording
\* search by u that resolved city c it holds exactly one row for (u, c),
\* stamped with the time of that search; and no other request touches a row.
C1_SearchUpsert ==
    [][/\ \A r1, r2 \in Rows(weatherSearch') :
              r1.userId = r2.userId /\ r1.cityId = r2.cityId => r1 = r2
       /\ Recorded(last') /\ NewRequest =>
              /\ Cardinality(SearchesOf(weatherSearch', last'.userId,
                                        last'.cityId)) = 1
              /\ \A r \in SearchesOf(weatherSearch', last'.userId,
                                     last'.cityId) : r.timestamp = now'
       /\ \A i \in 1 .. Len(weatherSearch) :
              weatherSearch'[i] # weatherSearch[i] =>
                  /\ Recorded(last') /\ NewRequest
                  /\ weatherSearch[i].userId = last'.userId
                  /\ weatherSearch[i].cityId = last'.cityId]_vars

\* C1 witness: a visitor's older row was refreshed by a repeated search and now
\* carries a later time than a row inserted after it
C1_Refreshed ==
    /\ Recorded(last)
    /\ ~last.created
    /\ \E r, s \in Rows(weatherSearch) :
           /\ r.userId = last.userId /\ r.cityId = last.cityId
           /\ s.userId = last.userId
           /\ r.id < s.id /\ r.timestamp > s.timestamp /\ r.timestamp = now

AddFavorite(request) == request.op = "addToFavorites" /\ request.svc

\* the descriptor carries a name and both coordinates
Complete(request) ==
    /\ request.name \notin {Undefined, ""}
    /\ request.lat # Undefined
    /\ request.lon # Undefined

CitiesNamed(cities, name) == {c \in Rows(cities) : c.name = name}

\* user userId has a favorite whose city is named name
FavoriteNamed(userId, name) ==
    \E f \in Rows(favoriteCity) :
        f.userId = userId /\ city[f.cityId].name = name

SameDescriptor(r1, r2) ==
    /\ r1.userId = r2.userId
    /\ r1.name = r2.name
    /\ r1.lat = r2.lat
    /\ r1.lon = r2.lon

\* C2: when an existing user adds a city that is not yet a favorite, with a
\* complete descriptor, the call succeeds; and when the same call is made
\* again right after a successful one, it fails with AlreadyFavorited and the
\* FavoriteCity table holds exactly one row for the user and that city.
C2_AddTwice ==
    [][NewRequest /\ AddFavorite(last') /\ Complete(last')
       /\ Registered(last'.userId) =>
           /\ ~FavoriteNamed(last'.userId, last'.name) => last'.error = ""
           /\ AddFavorite(last) /\ last.error = ""
              /\ SameDescriptor(last, last') =>
                  /\ last'.error = "AlreadyFavorited"
                  /\ Cardinality(FavoritesOf(favoriteCity', last.userId,
                                             last.cityId)) = 1]_vars

\* C3: the list getRecentSearches(u) returns has at most 5 entries, each a
\* distinct search of u, in order of non-increasing timestamp, and no search
\* of u that it leaves out is newer than one it returns (so it has 5 entries
\* whenever u has that many searches).
C3_RecentSearches ==
    last.op = "getRecentSearches" =>
        LET mine == {r \in Rows(weatherSearch) : r.userId = last.userId}
            returned == {response[i].id : i \in DOMAIN response}
        IN  /\ Len(response) <= 5
            /\ Len(response) = IF Cardinality(mine) < 5
                               THEN Cardinality(mine) ELSE 5
            /\ \A i \in DOMAIN response :
                   /\ response[i].id \in DOMAIN weatherSearch
                   /\ weatherSearch[response[i].id].userId = last.userId
                   /\ response[i].cityId = weatherSearch[response[i].id].cityId
            /\ \A i, j \in DOMAIN response :
                   i < j => /\ response[i].id # response[j].id
                            /\ weatherSearch[response[i].id].timestamp >=
                                   weatherSearch[response[j].id].timestamp
            /\ \A r \in mine : r.id \notin returned =>
                   \A i \in DOMAIN response :
                       r.timestamp <= weatherSearch[response[i].id].timestamp

\* C3 witness: a list of 5 was returned to a user who has more than 5
\* searches, made at different times, while another user has searches too
C3_FiveOfMore ==
    /\ last.op = "getRecentSearches"
    /\ Len(response) = 5
    /\ Cardinality({r \in Rows(weatherSearch) : r.userId = last.userId}) > 5
    /\ \E r \in Rows(weatherSearch) : r.userId # last.userId
    /\ weatherSearch[response[1].id].timestamp >
           weatherSearch[response[5].id].timestamp
    /\ \E i \in DOMAIN response : response[i].id > response[1].id

\* C4: a successful recording search by name n, made when no City row is
\* named n, creates one City row; a second successful recording search by the
\* same name right after it creates none and resolves the same city.
C4_ResolveByName ==
    [][NewRequest /\ Recorded(last') /\ last'.name # Undefined =>
           /\ CitiesNamed(city, last'.name) = {} =>
                  Len(city') = Len(city) + 1 /\ last'.cityId = Len(city')
           /\ Recorded(last) /\ last.created /\ last.name = last'.name =>
                  city' = city /\ last'.cityId = last.cityId]_vars

\* C5: when an existing user adds, with a complete descriptor, a city whose
\* name no City row carries, the call succeeds, creates a City row with the
\* descriptor's name and coordinates, and inserts one FavoriteCity row that
\* references it.
C5_AddCreatesCity ==
    [][NewRequest /\ AddFavorite(last') /\ Complete(last')
       /\ Registered(last'.userId)
       /\ CitiesNamed(city, last'.name) = {} =>
           /\ last'.error = ""
           /\ Len(city') = Len(city) + 1
           /\ city'[Len(city')].name = last'.name
           /\ city'[Len(city')].latitude = ToNumber(last'.lat)
           /\ city'[Len(city')].longitude = ToNumber(last'.lon)
           /\ Len(favoriteCity') = Len(favoriteCity) + 1
           /\ favoriteCity'[Len(favoriteCity')].userId = last'.userId
           /\ favoriteCity'[Len(favoriteCity')].cityId = Len(city')]_vars

\* C6: an add by an existing user fails with AlreadyFavorited exactly when
\* the user already has a favorite for the city the descriptor names; when
\* the user has none, the call inserts exactly one FavoriteCity row, for the
\* user and a city of that name, whatever other favorites the user has and
\* whether or not a City row of that name existed.
C6_AlreadyFavoritedIff ==
    [][NewRequest /\ AddFavorite(last') /\ Registered(last'.userId)
       /\ last'.name \notin {Undefined, ""} =>
           /\ last'.error = "AlreadyFavorited" <=>
                  FavoriteNamed(last'.userId, last'.name)
           /\ ~FavoriteNamed(last'.userId, last'.name) =>
                  /\ Len(favoriteCity') = Len(favoriteCity) + 1
                  /\ favoriteCity'[Len(favoriteCity')].userId = last'.userId
                  /\ city'[favoriteCity'[Len(favoriteCity')].cityId].name =
                         last'.name]_vars

\* C7: an addToFavorites call for a user id that has no User row fails with
\* UserNotFound and leaves City, FavoriteCity and WeatherSearch as they were.
C7_UserNotFound ==
    [][NewRequest /\ AddFavorite(last') /\ ~Registered(last'.userId) =>
           /\ last'.error = "UserNotFound"
           /\ UNCHANGED <<city, favoriteCity, weatherSearch>>]_vars

\* C7 witness: an add for a user id without a row was turned down although
\* the city it names is in the City table
C7_UnknownUser ==
    /\ AddFavorite(last)
    /\ ~Registered(last.userId)
    /\ last.error = "UserNotFound"
    /\ CitiesNamed(city, last.name) # {}
    /\ Complete(last)

\* C8: an add-favorite request of an existing user whose descriptor lacks the
\* name, the latitude or the longitude fails with InvalidInput and inserts
\* nothing into City or FavoriteCity.
C8_IncompleteDescriptor ==
    [][NewRequest /\ last'.op = "addToFavorites" /\ ~Complete(last')
       /\ Registered(last'.userId) =>
           /\ last'.error = "InvalidInput"
           /\ UNCHANGED <<city, favoriteCity>>]_vars

\* C9: a search whose query has no city name and lacks the latitude or the
\* longitude fails with InvalidInput, issues no provider call and changes no
\* table.
C9_InvalidQuery ==
    [][NewRequest /\ last'.op = "searchWeather"
       /\ last'.name \in {Undefined, ""}
       /\ (last'.lat = Undefined \/ last'.lon = Undefined) =>
           /\ last'.error = "InvalidInput"
           /\ last'.calls = <<>>
           /\ UNCHANGED tables]_vars

\* C9 witness: a query with a latitude only was turned down while the tables
\* held rows
C9_LatitudeOnly ==
    /\ last.op = "searchWeather"
    /\ last.name \in {Undefined, ""}
    /\ last.lat # Undefined
    /\ last.lon = Undefined
    /\ last.error = "InvalidInput"
    /\ Len(city) > 0
    /\ Len(weatherSearch) > 0

\* C10: after a successful recording search by name n of a user who had no
\* search history, getRecentSearches for that user returns exactly one entry,
\* and the city of that entry is named n.
C10_FirstSearchListed ==
    [][\A u \in UserIds :
           NewRequest /\ Recorded(last') /\ last'.name # Undefined
           /\ last'.userId = u
           /\ (\A r \in Rows(weatherSearch) : r.userId # u) =>
               \A result \in GetRecentSearches(u)' :
                   Len(result) = 1 /\ result[1].city.name = last'.name]_vars

\* C11: getWeather for a user id without a User row fails with UserNotFound
\* and issues no provider call; for an existing user it issues exactly one
\* provider call, whose query is the city on the user's row, returns the
\* provider's record as it came when the call succeeds and fails with
\* ProviderError when it fails; in every case no table changes.
C11_GetWeather ==
    [][\A userId \in WeatherUserIds, resp \in ProviderResponses :
           GetUserWeatherRequest(userId, resp, 0) =>
               /\ UNCHANGED tables
               /\ ~Registered(userId) =>
                      /\ last'.error = "UserNotFound"
                      /\ last'.calls = <<>>
                      /\ response' = <<>>
               /\ Registered(userId) =>
                      /\ \E u \in Rows(user) :
                             u.id = userId /\ last'.calls = <<u.city>>
                      /\ resp = ProviderFailure =>
                             last'.error = "ProviderError" /\ response' = <<>>
                      /\ resp # ProviderFailure =>
                             last'.error = "" /\ response' = <<resp>>]_vars

\* C11 witness: the second visitor, whose home is not the first visitor's,
\* got the weather at home, as the provider gave it, while the tables held
\* rows
C11_WeatherAtHome ==
    /\ last.op = "getWeather"
    /\ last.error = ""
    /\ last.userId = 2
    /\ \E u, v \in Rows(user) :
           u.id = 2 /\ v.id = 1 /\ u.city # v.city /\ last.calls = <<u.city>>
    /\ response = <<Paris>>
    /\ Len(weatherSearch) > 0

\* C15: a searchWeather or getWeather invocation issues at most one provider
\* call; when the provider fails that call, the invocation has issued exactly
\* that one call, ends with ProviderError and has written nothing.
C15_NoRetry ==
    [][/\ NewRequest /\ last'.op \in {"searchWeather", "getWeather"} =>
              Len(last'.calls) <= 1
       /\ \A query \in SearchQueries \cup MalformedQueries,
             userId \in WeatherUserIds :
              /\ SearchWeatherRequest(query.q, query.lat, query.lon, userId,
                                      ProviderFailure, 0)
              /\ query \in SearchQueries
              => /\ Len(last'.calls) = 1
                 /\ last'.error = "ProviderError"
                 /\ UNCHANGED tables
       /\ \A userId \in WeatherUserIds :
              GetUserWeatherRequest(userId, ProviderFailure, 0)
              /\ Registered(userId)
              => /\ Len(last'.calls) = 1
                 /\ last'.error = "ProviderError"
                 /\ UNCHANGED tables]_vars

\* C15 witness: a search by name was failed by the provider after the same
\* search had succeeded and been recorded
C15_ProviderFailed ==
    /\ last.op = "searchWeather"
    /\ last.error = "ProviderError"
    /\ last.calls = <<last.name>>
    /\ CitiesNamed(city, last.name) # {}
    /\ \E r \in Rows(weatherSearch) : r.userId = last.userId

\* process p takes a step of a weather-list request
FanOutStep(p) ==
    /\ proc'[p] # proc[p]
    /\ proc[p].op \in FanOutOps \/ proc'[p].op \in FanOutOps

\* C12: no step of getFavoriteCitiesWeather or getRecentSearchesWeather, be
\* it on the way to success or to failure, changes the City, FavoriteCity or
\* WeatherSearch table (timestamps included), and getRecentSearches returns
\* after the step what it returned before it.
C12_NoSideEffect ==
    [][\A p \in Procs : FanOutStep(p) =>
           /\ UNCHANGED tables
           /\ \A userId \in UserIds :
                  GetRecentSearches(userId)' = GetRecentSearches(userId)]_vars

\* C12 witness: the weather of two recent searches, made at different times,
\* has been collected and is about to be returned
C12_ListCollected ==
    \E p \in Procs :
        /\ proc[p].op = "getRecentSearchesWeather"
        /\ proc[p].pc = "done"
        /\ proc[p].error = ""
        /\ Len(proc[p].results) = 2
        /\ \E r1, r2 \in Rows(weatherSearch) :
               /\ r1.userId = proc[p].userId /\ r2.userId = proc[p].userId
               /\ r1.timestamp < r2.timestamp

\* C13: when the provider fails the k-th call of a weather-list request, the
\* request ends there with an error: k calls were issued and none follows,
\* and the caller gets the error and no weather record, the k-1 collected
\* before the failure included.
C13_AllOrNothing ==
    [][\A p \in Procs :
           /\ ProviderReturn(p, ProviderFailure) =>
                  /\ proc'[p].pc = "done"
                  /\ proc'[p].error = "ProviderError"
                  /\ proc'[p].calls = proc[p].calls
                  /\ Len(proc[p].calls) = Len(proc[p].results) + 1
           /\ FanOutStep(p) /\ proc[p].pc = "done" /\ proc[p].error # "" =>
                  /\ last'.op = proc[p].op
                  /\ last'.error = proc[p].error
                  /\ last'.calls = proc[p].calls
                  /\ response' = <<>>
                  /\ proc'[p] = Idle]_vars

\* C13 witness: the second call of a request was failed by the provider
\* after the first had brought a record
C13_SecondCallFailed ==
    \E p \in Procs :
        /\ proc[p].op \in FanOutOps
        /\ proc[p].pc = "done"
        /\ proc[p].error = "ProviderError"
        /\ Len(proc[p].calls) = 2
        /\ Len(proc[p].results) = 1
        /\ Len(proc[p].list) = 2

\* C14: in a weather-list request the provider calls go out one at a time,
\* in the order of the list the request read: at most one call is in flight,
\* it is the call for the entry after those already answered, the i-th call
\* asks for the i-th entry's city, the i-th record collected is the one for
\* the i-th entry, and there are never more calls than entries (of which the
\* recent searches have at most 5).
C14_OneAtATime ==
    \A p \in Procs : proc[p].op \in FanOutOps =>
        LET r == proc[p]
        IN  /\ Cardinality(r.inflight) <= 1
            /\ r.inflight # {} =>
                   /\ r.inflight = {Len(r.calls)}
                   /\ Len(r.results) = Len(r.calls) - 1
            /\ r.inflight = {} /\ r.error = "" => Len(r.results) = Len(r.calls)
            /\ Len(r.calls) <= Len(r.list)
            /\ r.op = "getRecentSearchesWeather" => Len(r.list) <= 5
            /\ \A j \in DOMAIN r.calls : r.calls[j] = r.list[j].city.name
            /\ \A j \in DOMAIN r.results :
                   r.results[j].name = r.list[j].city.name

\* C14 witness: the second call of a request is in flight, for the second
\* entry's city, which is not the first's, and the first call's record is in
C14_SecondCallInFlight ==
    \E p \in Procs :
        /\ proc[p].op \in FanOutOps
        /\ proc[p].pc = "await"
        /\ proc[p].inflight = {2}
        /\ Len(proc[p].results) = 1
        /\ proc[p].list[1].city.name # proc[p].list[2].city.name

\* C16: two overlapping recording searches for the same city name that both
\* found no City row of that name both insert one: each ends up with a City
\* row of its own, so the table holds two rows of the same name.
C16_BothInsert ==
    \A p, q \in Procs :
        /\ p # q
        /\ proc[p].op = "searchWeather" /\ proc[q].op = "searchWeather"
        /\ proc[p].name = proc[q].name
        /\ proc[p].created /\ proc[q].created
        => /\ proc[p].cityId # proc[q].cityId
           /\ city[proc[p].cityId].name = proc[p].name
           /\ city[proc[q].cityId].name = proc[q].name
           /\ Cardinality(CitiesNamed(city, proc[p].name)) >= 2

\* C16 witness: both searches for the same name saw 'not found', inserted
\* and ended without error, and City holds two rows of the name
C16_DuplicateCity ==
    /\ proc[1].op = "searchWeather" /\ proc[2].op = "searchWeather"
    /\ proc[1].name = proc[2].name
    /\ proc[1].created /\ proc[2].created
    /\ proc[1].pc = "done" /\ proc[2].pc = "done"
    /\ proc[1].error = "" /\ proc[2].error = ""
    /\ Cardinality(CitiesNamed(city, proc[1].name)) = 2

\* C18: in every state reached by overlapping recording searches, the
\* WeatherSearch table holds at most one row per (userId, cityId) pair.
C18_OneSearchRowPerPair ==
    \A r1, r2 \in Rows(weatherSearch) :
        r1.userId = r2.userId /\ r1.cityId = r2.cityId => r1 = r2

\* C17: in every state reached by overlapping addToFavorites requests, the
\* FavoriteCity table holds at most one row per (userId, cityId) pair.
C17_OneFavoritePerPair ==
    \A f1, f2 \in Rows(favoriteCity) :
        f1.userId = f2.userId /\ f1.cityId = f2.cityId => f1 = f2

\* every FavoriteCity row and every WeatherSearch row references a User row
\* and a City row that exist
ReferencesExist ==
    /\ \A f \in Rows(favoriteCity) :
           Registered(f.userId) /\ f.cityId \in 1 .. Len(city)
    /\ \A w \in Rows(weatherSearch) :
           Registered(w.userId) /\ w.cityId \in 1 .. Len(city)

\* C19: deleting a user who owns a FavoriteCity or a WeatherSearch row fails
\* and changes no table; and in every state every FavoriteCity and every
\* WeatherSearch row references an existing User row and an existing City
\* row.
C19_DeleteRestricted ==
    /\ []ReferencesExist
    /\ [][\A userId \in DeleteUserIds :
              /\ DeleteUserProfileRequest(userId)
              /\ \/ \E f \in Rows(favoriteCity) : f.userId = userId
                 \/ \E w \in Rows(weatherSearch) : w.userId = userId
              => /\ last'.error # ""
                 /\ UNCHANGED tables]_vars

\* C19 witness: the deletion of a user who has a favorite and a recorded
\* search was turned down, and the user's row is still there
C19_DeleteTurnedDown ==
    /\ last.op = "deleteUserProfile"
    /\ last.error = "StorageError"
    /\ Registered(last.userId)
    /\ \E f \in Rows(favoriteCity) : f.userId = last.userId
    /\ \E w \in Rows(weatherSearch) : w.userId = last.userId

\* C20: in every interleaving of registerUser and updateUserProfile requests
\* no two User rows have the same email; a registration whose email is
\* present, at its lookup or at its insert, fails and leaves the User table as
\* it is; a profile update fails, at its lookup or at its update, when its
\* email belongs to another user, and passes both when the email is the one
\* the caller's row holds.
C20_UniqueEmail ==
    /\ [](\A i, j \in DOMAIN user : user[i].email = user[j].email => i = j)
    /\ [][\A p \in Procs :
            LET r == proc[p]
                present == \E u \in Rows(user) : u.email = r.name
                others == \E u \in Rows(user) :
                              u.id # r.userId /\ u.email = r.name
                own == \E u \in Rows(user) :
                           u.id = r.userId /\ u.email = r.name
            IN  /\ r.op = "registerUser" /\ present
                   /\ (FindExistingUser(p) \/ CreateUserRow(p))
                   => /\ proc'[p].pc = "done"
                      /\ proc'[p].error # ""
                      /\ user' = user
                /\ r.op = "updateUserProfile" /\ others
                   /\ (FindExistingUser(p) \/ UpdateUserRow(p))
                   => /\ proc'[p].pc = "done"
                      /\ proc'[p].error # ""
                      /\ user' = user
                /\ r.op = "updateUserProfile" /\ own /\ FindExistingUser(p)
                   => proc'[p].pc = "updateUser" /\ proc'[p].error = ""
                /\ r.op = "updateUserProfile" /\ own /\ UpdateUserRow(p)
                   => /\ proc'[p].pc = "done"
                      /\ proc'[p].error = ""
                      /\ \E u \in Rows(user') :
                             u.id = r.userId /\ u.email = r.name]_vars

\* C20 witness: a registration that found its email free at the lookup was
\* turned down at the insert, another request having registered the email in
\* between
C20_InsertTurnedDown ==
    \E p \in Procs :
        /\ proc[p].op = "registerUser"
        /\ proc[p].pc = "done"
        /\ proc[p].error = "StorageError"
        /\ \E u \in Rows(user) : u.email = proc[p].name

\* C21: a login sets the session's userId to i exactly when a User row with
\* the supplied email has id i and a stored hash the supplied password
\* matches; any other login fails and leaves every session as it is; and a
\* session gets a userId through a successful login only.
C21_LoginOnly ==
    [][/\ \A s \in Sessions, email \in Rows(Emails), password \in Passwords :
            LoginUserRequest(s, email, password)
            => LET valid == {u \in Rows(user) :
                                /\ u.email = email
                                /\ u.password = [bcrypt |-> password.head]}
               IN  IF valid # {}
                   THEN /\ last'.error = ""
                        /\ \E u \in valid : session'[s].userId = u.id
                        /\ \A t \in Sessions \ {s} : session'[t] = session[t]
                   ELSE /\ last'.error # ""
                        /\ session' = session
       /\ \A s \in Sessions :
            session'[s] # session[s] /\ session'[s].userId # UndefinedNum
            => /\ last' # last
               /\ last'.op = "loginUser"
               /\ last'.error = ""]_vars

\* C21 witness: the second user, registered with a password of its own, has
\* just logged in on one browser while the first user is logged in on the
\* other
C21_SecondUserLoggedIn ==
    /\ last.op = "loginUser"
    /\ last.error = ""
    /\ \E s, t \in Sessions :
           /\ session[s].userId = 2
           /\ session[t].userId = 1
           /\ last.userId = 2
    /\ \E u \in Rows(user) :
           u.id = 2 /\ u.password = [bcrypt |-> "0therpwd"]

\* C22: when a successful history-recording search by coordinates (lat, lon)
\* found no City row there and created one, the next search by the same user
\* with the same coordinates, if it succeeds, creates no City row and no
\* WeatherSearch row: the two calls leave one row of each in total.
C22_CoordinatesResolveOnce ==
    [][\A userId \in UserIds, resp \in Locations, elapsed \in Elapsed :
           /\ last.op = "searchWeather"
           /\ last.error = ""
           /\ last.created
           /\ last.name = Undefined /\ last.lat = "7" /\ last.lon = "7"
           /\ last.userId = userId
           /\ SearchWeatherRequest(Undefined, "7", "7", userId, resp, elapsed)
           /\ last'.error = ""
           => /\ city' = city
              /\ Len(weatherSearch') = Len(weatherSearch)]_vars

\* C23: right after a successful history-recording search by u that resolved
\* city c, whatever u searched before and whether the search inserted its
\* row or refreshed it, getRecentSearches(u) returns a list whose first
\* entry is the entry for c.
C23_LatestSearchFirst ==
    [][\A u \in UserIds :
           NewRequest /\ Recorded(last') /\ last'.userId = u =>
               \A result \in GetRecentSearches(u)' :
                   /\ Len(result) > 0
                   /\ result[1].cityId = last'.cityId]_vars

\* C24: across the weather and favorites operations the City and the
\* FavoriteCity table only grow, every row they hold staying as it is; no
\* WeatherSearch row disappears, and the only field of one that changes is
\* its timestamp; and no User row changes.
C24_OnlyGrow ==
    [][/\ Len(city') >= Len(city)
       /\ \A i \in DOMAIN city : city'[i] = city[i]
       /\ Len(favoriteCity') >= Len(favoriteCity)
       /\ \A i \in DOMAIN favoriteCity : favoriteCity'[i] = favoriteCity[i]
       /\ Len(weatherSearch') >= Len(weatherSearch)
       /\ \A i \in DOMAIN weatherSearch :
              [weatherSearch'[i] EXCEPT
                   !.timestamp = weatherSearch[i].timestamp] = weatherSearch[i]
       /\ user' # user => NewRequest /\ last'.op = "registerUser"]_vars

\* C24 witness: both users have the city as a favorite, both have searched
\* it, and the first user's search row has been refreshed since
C24_GrownAndRefreshed ==
    /\ Len(city) = 1
    /\ Len(favoriteCity) = 2
    /\ Len(weatherSearch) = 2
    /\ weatherSearch[1].timestamp > weatherSearch[2].timestamp
    /\ last.op = "searchWeather"
    /\ last.error = ""

\* a request on session s to one of the routes behind authenticateUser
GuardedRoute(s) ==
    \/ \E q \in SessionNames, resp \in ProviderResponses :
           \/ GetUserWeatherRoute(s, resp)
           \/ SearchWeatherRoute(s, q, Undefined, Undefined, resp)
    \/ GetRecentSearchesRoute(s)
    \/ GetFavoriteCitiesRoute(s)
    \/ \E name \in SessionNames : AddToFavoritesRoute(s, name, "7", "7")
    \/ \E p \in SessionProcs :
           \/ GetRecentSearchesWeatherRoute(p, s)
           \/ GetFavoriteCitiesWeatherRoute(p, s)
           \/ LogoutUserBegin(p, s)
           \/ DeleteUserProfileBegin(p, s)
    \/ GetUserProfileRoute(s)
    \/ \E email \in RegisterEmails \cup {""} :
           UpdateUserProfileRoute(s, email, Undefined)
    \/ \E oldPassword \in Passwords \cup {TooShort},
          newPassword \in RegisterPasswords :
           UpdateUserPasswordRoute(s, oldPassword, newPassword)

\* C25: a request to a /weather route or to the logout, profile, password or
\* delete-profile route on a session without a userId is answered 401
\* Unauthorized, with no service call, no provider call and no change of a
\* table; the logout that answers with success leaves its session without
\* a userId; and a session without a userId gets one through a successful
\* login only.
C25_AuthenticatedOnly ==
    [][/\ \A s \in Sessions :
              session[s].userId = UndefinedNum /\ GuardedRoute(s)
              => /\ NewRequest
                 /\ last'.error = "Unauthorized"
                 /\ ~last'.svc
                 /\ last'.calls = <<>>
                 /\ UNCHANGED <<tables, proc, session>>
       /\ \A p \in SessionProcs :
              /\ proc[p].op = "logoutUser" /\ proc'[p].op = "logoutUser"
              /\ proc[p].sends = 0 /\ proc'[p].sends = 1
              /\ proc'[p].status = 200
              => session'[proc[p].sid].userId = UndefinedNum
       /\ \A s \in Sessions :
              session[s].userId = UndefinedNum
              /\ session'[s].userId # UndefinedNum
              => NewRequest /\ last'.op = "loginUser" /\ last'.error = ""]_vars

WeatherOps ==
    {"getWeather", "searchWeather", "addToFavorites", "getFavoriteCities",
     "getRecentSearches"} \cup FanOutOps

\* a step of a weather or favorites operation invoked with userId: a request
\* served as a whole, or a step of a list-weather request
OperationOf(userId) ==
    \/ NewRequest /\ last'.op \in WeatherOps /\ last'.userId = userId
    \/ \E p \in FanOutProcs :
           /\ proc'[p] # proc[p]
           /\ proc[p].userId = userId \/ proc'[p].userId = userId

\* the rows of a table that are new or have changed in this step
Written(table) ==
    {table'[i] : i \in {j \in DOMAIN table' :
                           j \notin DOMAIN table \/ table'[j] # table[j]}}

\* C26: a step of an operation invoked with userId u removes no FavoriteCity
\* or WeatherSearch row and creates or changes only rows whose userId is u;
\* getFavoriteCities(u), getRecentSearches(u) and the lists the two
\* list-weather operations read return entries of rows of u only.
C26_UserIsolation ==
    [][\A u \in OpsUserIds :
           OperationOf(u)
           => /\ Len(favoriteCity') >= Len(favoriteCity)
              /\ Len(weatherSearch') >= Len(weatherSearch)
              /\ \A f \in Written(favoriteCity) : f.userId = u
              /\ \A w \in Written(weatherSearch) : w.userId = u
              /\ NewRequest /\ last'.op = "getFavoriteCities"
                 => \A k \in DOMAIN response' :
                        \E f \in Rows(favoriteCity) :
                            f.id = response'[k].id /\ f.userId = u
              /\ NewRequest /\ last'.op = "getRecentSearches"
                 => \A k \in DOMAIN response' :
                        \E w \in Rows(weatherSearch) :
                            w.id = response'[k].id /\ w.userId = u
              /\ \A p \in FanOutProcs :
                     proc[p].pc = "idle" /\ proc'[p].pc = "loop"
                     => \A k \in DOMAIN proc'[p].list :
                            \E r \in Rows(favoriteCity) \cup Rows(weatherSearch) :
                                /\ r.id = proc'[p].list[k].id
                                /\ r.userId = u]_vars

\* C26 witness: the second user has just refreshed its search row, the older
\* of the two rows, which is now newer than the first user's; both users
\* have a favorite
C26_OwnRowRefreshed ==
    /\ Len(weatherSearch) = 2
    /\ weatherSearch[1].userId = 2
    /\ weatherSearch[2].userId = 1
    /\ weatherSearch[1].timestamp > weatherSearch[2].timestamp
    /\ last.op = "searchWeather"
    /\ last.userId = 2
    /\ \A u \in OpsUserIds : \E f \in Rows(favoriteCity) : f.userId = u

\* C27: in a search followed from await to await the provider call is over
\* before storage is touched: the step of a search whose provider call
\* failed changes no City and no WeatherSearch row and ends the search with
\* the provider's error, and every step of a search that creates or updates
\* a City or WeatherSearch row belongs to a search that has made its one
\* provider call and got a location from it.
C27_ProviderBeforeStorage ==
    [][\A p \in Procs :
           /\ /\ proc'[p] # proc[p]
              /\ proc'[p].op = "searchWeather"
              /\ proc'[p].resp = ProviderFailure
              => /\ UNCHANGED <<city, weatherSearch>>
                 /\ proc'[p].pc = "done"
                 /\ proc'[p].error = "ProviderError"
           /\ /\ proc'[p] # proc[p]
              /\ proc[p].op = "searchWeather"
              /\ <<city, weatherSearch>>' # <<city, weatherSearch>>
              => /\ proc[p].resp \in Locations
                 /\ proc[p].calls = <<proc[p].name>>
                 /\ proc[p].error = ""]_vars

\* C27 witness: a search whose provider call failed has ended with the
\* provider's error while the city it asked for has a City row and a
\* WeatherSearch row of the same user, which a search that went on would
\* have refreshed
C27_FailedBeforeStorage ==
    \E p \in Procs :
        /\ proc[p].op = "searchWeather"
        /\ proc[p].pc = "done"
        /\ proc[p].error = "ProviderError"
        /\ \E c \in Rows(city) :
               /\ c.name = proc[p].name
               /\ SearchesOf(weatherSearch, proc[p].userId, c.id) # {}

\* C28: a search that fails (invalid input, provider failure, or a storage
\* failure on the WeatherSearch lookup, update or insert) leaves the City and
\* WeatherSearch tables as they were before the call.
C28_FailedSearchChangesNothing ==
    [][NewRequest /\ last'.op = "searchWeather" /\ last'.error # ""
       => UNCHANGED <<city, weatherSearch>>]_vars

\* C29: a request that is over (its handler has returned and its
\* session-destroy callback has run) has sent exactly one response, whatever
\* the callback reported and whether it ran before or after the deletion
\* settled.
C29_OneResponse ==
    \A p \in SessionProcs :
        proc[p].pc = "returned" /\ proc[p].destroy = "done"
        => proc[p].sends = 1

\* C30: a delete-profile request whose deletion the store turned down
\* (favorites or searches still reference the user) is over with the User
\* row still in place and the requesting session still holding the user's
\* id.
C30_SessionEndsWithAccount ==
    \A p \in SessionProcs :
        /\ proc[p].op = "deleteUserProfile"
        /\ proc[p].pc = "returned"
        /\ proc[p].destroy = "done"
        /\ proc[p].error = "StorageError"
        => /\ \E u \in Rows(user) : u.id = proc[p].userId
           /\ session[proc[p].sid].userId = proc[p].userId

====
